---- MODULE Spec2Model ----
(***************************************************************************)
(* Thought-sequence engines of the sequentialthinking repository.          *)
(*                                                                         *)
(* The repository holds three independent engines:                         *)
(*   manager : SequentialThinkingManager (sessions of ThoughtState)        *)
(*             src/src/tools/sequential-thinking-manager.ts:8-197          *)
(*   server  : SequentialThinkingServer, SQLite-backed processThought      *)
(*             src/src/tools/sequential-thinking-manager.ts:422-1986       *)
(*   index   : SequentialThinkingServer of index.ts, the ThoughtEntry      *)
(*             tool handler with hypothesis tracking                       *)
(*             src/src/index.ts:128-385                                    *)
(* A behaviour exercises one engine, chosen in Init by `impl`.             *)
(*                                                                         *)
(* Optional fields: an absent number is 0 (the callers' schemas admit only *)
(* integers >= 1, and the code tests them by truthiness), an absent string *)
(* or enum is Undef, an absent relatedTo is the empty sequence (no input   *)
(* carries an explicit empty array), an absent isRevision is FALSE.        *)
(***************************************************************************)
EXTENDS Integers, Sequences, FiniteSets, TLC

VARIABLES
    impl,               \* which engine this behaviour exercises
    sessions,           \* manager: Map<string, ThinkingSession>
    defaultSessionId,   \* tool handler: string | null (Undef is null)
    thoughtHistory,     \* server: ThoughtData[]
    branches,           \* server: Record<string, ThoughtData[]>, in key order
    currentSequenceId,  \* server: string | null (0 is null)
    sequences,          \* server: rows of table sequences, by id
    thoughtRows,        \* server: rows of table thoughts, in insertion order
    limits,             \* server: maxThoughtHistory, maxBranches, maxThoughtsPerBranch
    submissions,        \* server: the thoughts put into the current main line, in order
    entryHistory,       \* index: thoughtHistory, a ThoughtEntry[]
    entryBranches,      \* index: branches, a Record<string, ThoughtEntry[]>
    inflight,       \* server: the processThought calls suspended at an await
    budget,         \* number of calls this behaviour may make
    clock,          \* the millisecond new Date() reads
    calls,          \* number of calls made so far
    last,           \* the last operation: its name, arguments and outcome
    before          \* the engine's state when the last operation was invoked

managerVars == <<sessions, defaultSessionId>>
serverVars == <<thoughtHistory, branches, currentSequenceId, sequences, thoughtRows>>
indexVars == <<entryHistory, entryBranches>>
vars == <<impl, limits, managerVars, serverVars, submissions, indexVars, inflight, budget, clock,
          calls, last, before>>

----------------------------------------------------------------------------
(* Bounds *)

\* thought numbers range over 1..MaxNum
MaxNum == 2
\* calls in one behaviour
MaxCalls == 3
\* configured limits range over 0..MaxLimit
MaxLimit == 2
\* the strings given to calculateFuzzyScore have up to MaxLen characters
MaxLen == 3

Nums == 1..MaxNum
Undef == "undefined"
OK == "ok"

\* sequences of distinct elements of S of length 1..n
SeqsNoRep(S, n) ==
    {s \in UNION {[1..k -> S] : k \in 1..n} :
        \A i, j \in 1..Len(s) : i # j => s[i] # s[j]}

\* Array.prototype.includes
Includes(seq, x) == \E i \in 1..Len(seq) : seq[i] = x

----------------------------------------------------------------------------
(* SequentialThinkingManager *)

SessionIds == {"s1"}

\* ThoughtParams with every optional field absent
PlainParams(n) ==
    [thought |-> "t", thoughtNumber |-> n, totalThoughts |-> MaxNum,
     nextThoughtNeeded |-> TRUE, isRevision |-> FALSE, revisesThought |-> 0,
     branchFromThought |-> 0, branchId |-> Undef, thoughtType |-> Undef,
     relatedTo |-> <<>>, verificationResult |-> Undef]

\* the submissions offered to addThought
SequenceParams ==
    {[PlainParams(n) EXCEPT !.nextThoughtNeeded = x] : n \in Nums, x \in BOOLEAN}
    \cup {[PlainParams(n) EXCEPT !.totalThoughts = 1] : n \in Nums}
    \cup {[PlainParams(n) EXCEPT !.isRevision = TRUE, !.revisesThought = r] :
             n \in Nums, r \in 0..MaxNum}
    \cup {[PlainParams(n) EXCEPT !.branchFromThought = k, !.branchId = "b1"] :
             n \in Nums, k \in Nums}
    \cup {[PlainParams(MaxNum) EXCEPT !.isRevision = TRUE, !.revisesThought = r,
                                      !.branchFromThought = k, !.branchId = "b1"] :
             r \in Nums, k \in Nums}

\* the submissions of the hypothesis / verification workflow
HypothesisParams ==
    {PlainParams(n) : n \in Nums}
    \cup {[PlainParams(n) EXCEPT !.thoughtType = "hypothesis"] : n \in Nums}
    \cup {[PlainParams(n) EXCEPT !.thoughtType = "verification", !.relatedTo = rel,
                                 !.verificationResult = res] :
             n \in Nums, rel \in SeqsNoRep(Nums, 2) \cup {<<>>},
             res \in {Undef, "confirmed", "refuted"}}

\* hypotheses and single-target verifications, the verifications numbered up to
\* MaxNum + 1 so that two of them can follow a hypothesis in either order
VerificationParams ==
    {[PlainParams(n) EXCEPT !.thoughtType = "hypothesis"] : n \in Nums}
    \cup {[PlainParams(n) EXCEPT !.thoughtType = "verification", !.relatedTo = <<h>>,
                                 !.verificationResult = res] :
             n \in 1..(MaxNum + 1), h \in Nums, res \in {"confirmed", "refuted"}}

\* createSession (lines 19-35)
NewSession ==
    [thoughts |-> <<>>, totalThoughts |-> 0, isComplete |-> FALSE,
     hypotheses |-> <<>>, verifications |-> <<>>]

\* Map.set
MapSet(m, k, v) == [x \in DOMAIN m \cup {k} |-> IF x = k THEN v ELSE m[x]]

\* session.hypotheses and session.verifications are Maps whose values are read
\* in order (line 132): the entries [key, value] in insertion order

\* the keys of the entries
MapKeys(entries) == {entries[i].key : i \in 1..Len(entries)}

\* Map.get of a key the Map holds
MapGet(entries, k) == entries[CHOOSE i \in 1..Len(entries) : entries[i].key = k].value

\* Map.set (lines 72, 74): the value of a key the Map holds is replaced where
\* the entry stands, a new key is entered last
MapSetEntry(entries, k, v) ==
    IF k \in MapKeys(entries)
    THEN [i \in 1..Len(entries) |->
            IF entries[i].key = k THEN [key |-> k, value |-> v] ELSE entries[i]]
    ELSE Append(entries, [key |-> k, value |-> v])

\* Array.prototype.find(...) !== undefined on session.thoughts
HasThought(session, n) ==
    \E i \in 1..Len(session.thoughts) : session.thoughts[i].thoughtNumber = n

\* a duplicate check that looks only at stored revisions
DuplicateRuleRevisionsOnly(session, params) ==
    /\ ~params.isRevision
    /\ \E i \in 1..Len(session.thoughts) :
          /\ session.thoughts[i].thoughtNumber = params.thoughtNumber
          /\ session.thoughts[i].isRevision

\* lines 86-91: a non-revision repeats the number of a stored non-revision
DuplicateRule(session, params) ==
    /\ ~params.isRevision
    /\ \E i \in 1..Len(session.thoughts) :
          /\ session.thoughts[i].thoughtNumber = params.thoughtNumber
          /\ ~session.thoughts[i].isRevision

\* the presence check left out
RevisionRequiredRuleOmitted(params) == FALSE

\* lines 94-97: a revision without revisesThought
RevisionRequiredRule(params) == params.isRevision /\ params.revisesThought = 0

\* a revision check that looks up the submission's own number
RevisionRuleOwnNumber(session, params) ==
    params.isRevision /\ ~HasThought(session, params.thoughtNumber)

\* lines 98-101: a revision of a number the session does not hold
RevisionRule(session, params) ==
    params.isRevision /\ ~HasThought(session, params.revisesThought)

\* a branch check made only when no branchId is given
BranchRuleWithoutBranchId(session, params) ==
    /\ params.branchFromThought # 0
    /\ params.branchId = Undef
    /\ ~HasThought(session, params.branchFromThought)

\* lines 105-110: a branch from a number the session does not hold
BranchRule(session, params) ==
    /\ params.branchFromThought # 0
    /\ ~HasThought(session, params.branchFromThought)

\* a verification check against the stored thoughts instead of the hypotheses
VerificationRuleAnyThought(session, params) ==
    /\ params.thoughtType = "verification"
    /\ \E i \in 1..Len(params.relatedTo) : ~HasThought(session, params.relatedTo[i])

\* lines 113-120: a verification of a number session.hypotheses does not hold
VerificationRule(session, params) ==
    /\ params.thoughtType = "verification"
    /\ \E i \in 1..Len(params.relatedTo) :
          params.relatedTo[i] \notin MapKeys(session.hypotheses)

\* validateThoughtSequence (lines 84-121): OK, or the message of the Error thrown
validateThoughtSequence(session, params) ==
    IF DuplicateRule(session, params) THEN "Thought number already exists"
    ELSE IF RevisionRequiredRule(params)
    THEN "revisesThought is required when isRevision is true"
    ELSE IF RevisionRule(session, params) THEN "Cannot revise non-existent thought"
    ELSE IF BranchRule(session, params) THEN "Cannot branch from non-existent thought"
    ELSE IF VerificationRule(session, params) THEN "Cannot verify non-existent hypothesis"
    ELSE OK

\* the ThoughtState built by addThought (lines 49-62)
ThoughtStateOf(sessionId, params) ==
    [sessionId |-> sessionId,
     thoughtNumber |-> params.thoughtNumber,
     content |-> params.thought,
     isRevision |-> params.isRevision,
     revisesThought |-> params.revisesThought,
     branchFromThought |-> params.branchFromThought,
     branchId |-> params.branchId,
     thoughtType |-> params.thoughtType,
     relatedTo |-> params.relatedTo,
     verificationResult |-> params.verificationResult]

\* an addThought that overwrites the newest thought of the session
SessionWithNewestReplaced(session, sessionId, params) ==
    [session EXCEPT
        !.thoughts = IF session.thoughts = <<>>
                     THEN <<ThoughtStateOf(sessionId, params)>>
                     ELSE [session.thoughts EXCEPT ![Len(session.thoughts)] =
                              ThoughtStateOf(sessionId, params)],
        !.totalThoughts = params.totalThoughts,
        !.isComplete = ~params.nextThoughtNeeded]

\* an addThought that never reopens a completed session
SessionWithCompletionKept(session, sessionId, params) ==
    [session EXCEPT
        !.thoughts = Append(session.thoughts, ThoughtStateOf(sessionId, params)),
        !.totalThoughts = params.totalThoughts,
        !.isComplete = session.isComplete \/ ~params.nextThoughtNeeded]

\* the session after an accepted addThought (lines 64-75)
SessionWith(session, sessionId, params) ==
    LET thoughtState == ThoughtStateOf(sessionId, params) IN
    [thoughts |-> Append(session.thoughts, thoughtState),
     totalThoughts |-> params.totalThoughts,
     isComplete |-> ~params.nextThoughtNeeded,
     hypotheses |-> IF params.thoughtType = "hypothesis"
                    THEN MapSetEntry(session.hypotheses, params.thoughtNumber, thoughtState)
                    ELSE session.hypotheses,
     verifications |-> IF params.thoughtType = "verification"
                       THEN MapSetEntry(session.verifications, params.thoughtNumber, thoughtState)
                       ELSE session.verifications]

\* the Error addThought throws, or OK (lines 40-46)
addThoughtError(sessionId, params) ==
    IF sessionId \notin DOMAIN sessions THEN "Session not found"
    ELSE validateThoughtSequence(sessions[sessionId], params)

\* createSession (lines 19-35) with its uuid drawn from ids
createSessionFrom(ids) ==
    /\ impl = "manager"
    /\ \E sessionId \in ids \ DOMAIN sessions :
          /\ sessions' = MapSet(sessions, sessionId, NewSession)
          /\ last' = [op |-> "createSession", sessionId |-> sessionId, error |-> OK]
    /\ before' = sessions
    /\ UNCHANGED <<impl, limits, budget, clock, inflight, calls, defaultSessionId, serverVars,
                   submissions, indexVars>>

createSession == createSessionFrom(SessionIds)

\* the ids of two sessions
TwoSessionIds == SessionIds \cup {"s2"}

\* deleteSession (lines 190-196)
deleteSession(sessionId) ==
    /\ impl = "manager"
    /\ calls < budget
    /\ sessions' = [id \in DOMAIN sessions \ {sessionId} |-> sessions[id]]
    /\ last' = [op |-> "deleteSession", sessionId |-> sessionId, error |-> OK,
                deleted |-> sessionId \in DOMAIN sessions]
    /\ before' = sessions
    /\ calls' = calls + 1
    /\ UNCHANGED <<impl, limits, budget, clock, inflight, defaultSessionId, serverVars, submissions,
                   indexVars>>

addThought(sessionId, params) ==
    /\ impl = "manager"
    /\ calls < budget
    /\ LET error == addThoughtError(sessionId, params) IN
          /\ last' = [op |-> "addThought", sessionId |-> sessionId,
                      params |-> params, error |-> error]
          /\ sessions' = IF error = OK
                         THEN [sessions EXCEPT ![sessionId] = SessionWith(@, sessionId, params)]
                         ELSE sessions
    /\ before' = sessions
    /\ calls' = calls + 1
    /\ UNCHANGED <<impl, limits, budget, clock, inflight, defaultSessionId, serverVars, submissions,
                   indexVars>>

\* the latest verification of a hypothesis in getSessionSummary (lines 146-154)
VerificationsOf(session, hypothesis) ==
    LET Refers(t) == t.thoughtType = "verification" /\ Includes(t.relatedTo, hypothesis.thoughtNumber)
    IN SelectSeq(session.thoughts, Refers)

\* the counter a hypothesis is added to in getSessionSummary (lines 151-168)
HypothesisStatus(session, hypothesis) ==
    LET verifications == VerificationsOf(session, hypothesis) IN
    IF Len(verifications) = 0 THEN "pending"
    ELSE LET latestVerification == verifications[Len(verifications)] IN
         IF latestVerification.verificationResult \in {"confirmed", "refuted", "partial"}
         THEN latestVerification.verificationResult
         ELSE "pending"

\* Array.from(map.values()) (line 132): the values of the Map in a new array,
\* in insertion order
MapValues(entries) == [i \in 1..Len(entries) |-> entries[i].value]

\* getSessionSummary at line 132: the session it was given and its locals
SummaryFrame(session) ==
    [session |-> session, hypotheses |-> <<>>, branches |-> {}, revisions |-> 0,
     hypothesesStatus |-> [total |-> 0, confirmed |-> 0, refuted |-> 0, partial |-> 0,
                           pending |-> 0]]

\* lines 132-142: hypotheses, branches, revisions and hypothesesStatus are
\* assigned; Array.from, filter, map and the spread of a Set build new arrays
summaryLocals(frame) ==
    LET IsRev(t) == t.isRevision
        InBranch(t) == t.branchId # Undef
        branched == SelectSeq(frame.session.thoughts, InBranch)
        hypotheses == MapValues(frame.session.hypotheses)
    IN [frame EXCEPT !.hypotheses = hypotheses,
                     !.branches = {branched[i].branchId : i \in 1..Len(branched)},
                     !.revisions = Len(SelectSeq(frame.session.thoughts, IsRev)),
                     !.hypothesesStatus.total = Len(hypotheses)]

\* a pass of the loop that takes the latest verification off session.thoughts
\* with pop() instead of reading it from the filtered array
countHypothesisTaking(frame, hypothesis) ==
    LET counted == [frame EXCEPT !.hypothesesStatus[HypothesisStatus(frame.session, hypothesis)]
                                    = @ + 1]
    IN IF Len(VerificationsOf(frame.session, hypothesis)) = 0 THEN counted
       ELSE [counted EXCEPT !.session.thoughts = SubSeq(@, 1, Len(@) - 1)]

\* one pass of the loop of lines 145-169: verifications is filtered out of
\* session.thoughts into a new array and one counter of hypothesesStatus goes up
countHypothesis(frame, hypothesis) ==
    [frame EXCEPT !.hypothesesStatus[HypothesisStatus(frame.session, hypothesis)] = @ + 1]

RECURSIVE countHypotheses(_, _)
\* the loop of lines 145-169 from its k-th pass on
countHypotheses(frame, k) ==
    IF k > Len(frame.hypotheses) THEN frame
    ELSE countHypotheses(countHypothesis(frame, frame.hypotheses[k]), k + 1)

\* getSessionSummary at its return statement (line 171)
summarized(session) == countHypotheses(summaryLocals(SummaryFrame(session)), 1)

\* getSessionSummary (lines 126-178): the value of its return statement
getSessionSummary(session) ==
    LET frame == summarized(session)
    IN [totalThoughts |-> Len(frame.session.thoughts),
        hypotheses |-> frame.hypothesesStatus,
        branches |-> frame.branches,
        revisions |-> frame.revisions,
        isComplete |-> frame.session.isComplete]

\* this.sessions after getSessionSummary (lines 126-178): the session is as
\* the statements of the call left it
sessionsAfterSummary(sessionId) ==
    [sessions EXCEPT ![sessionId] = summarized(sessions[sessionId]).session]

\* one call of getSessionSummary (lines 126-178)
callGetSessionSummary(sessionId) ==
    /\ impl = "manager"
    /\ calls < budget
    /\ IF sessionId \notin DOMAIN sessions
       THEN /\ last' = [op |-> "getSessionSummary", sessionId |-> sessionId,
                        error |-> "Session not found"]
            /\ UNCHANGED sessions
       ELSE /\ last' = [op |-> "getSessionSummary", sessionId |-> sessionId, error |-> OK,
                        summary |-> getSessionSummary(sessions[sessionId])]
            /\ sessions' = sessionsAfterSummary(sessionId)
    /\ before' = [state |-> sessions, last |-> last]
    /\ calls' = calls + 1
    /\ UNCHANGED <<impl, limits, budget, clock, inflight, defaultSessionId, serverVars, submissions,
                   indexVars>>

----------------------------------------------------------------------------
(* SequentialThinkingServer, SQLite-backed (processThought) *)

\* this.maxThoughtHistory, this.maxBranches, this.maxThoughtsPerBranch: the
\* limits the constructor read from the environment (lines 434-436)
maxThoughtHistory == limits.maxThoughtHistory
maxBranches == limits.maxBranches
maxThoughtsPerBranch == limits.maxThoughtsPerBranch
MaxThoughtLength == 10000

\* characters of a thought: a letter, a blank, a control character
Letter == "a"
Blank == " "
Control == "BEL"
\* further characters of a title or a query: an upper-case letter, a second letter
Upper == "A"
Second == "b"

BranchNames == {"b1", "b2", "b3"}

\* a well-formed thought submission with every optional field absent
PlainData(n) ==
    [PlainParams(n) EXCEPT !.thought = <<Letter>>, !.totalThoughts = 1] @@ [directive |-> "none"]

\* the inputs offered to processThought
ThoughtInputs ==
    {PlainData(n) : n \in Nums}
    \cup {[PlainData(n) EXCEPT !.totalThoughts = MaxNum] : n \in Nums}
    \cup {[PlainData(n) EXCEPT !.isRevision = TRUE, !.revisesThought = r] :
             n \in Nums, r \in 0..MaxNum}
    \cup {[PlainData(n) EXCEPT !.branchFromThought = 1, !.branchId = b] :
             n \in Nums, b \in BranchNames}
    \cup {[PlainData(n) EXCEPT !.thoughtType = "hypothesis"] : n \in Nums}
    \cup {[PlainData(n) EXCEPT !.thoughtType = "verification", !.relatedTo = <<1>>,
                               !.verificationResult = "confirmed"] : n \in Nums}
    \cup {[PlainData(1) EXCEPT !.branchFromThought = 1],
          [PlainData(1) EXCEPT !.verificationResult = "confirmed"],
          [PlainData(1) EXCEPT !.thought = <<>>],
          [PlainData(1) EXCEPT !.thought = <<>>, !.isRevision = TRUE],
          [PlainData(1) EXCEPT !.thought = <<Control, Letter, Blank>>]}

\* plain thoughts and thoughts that open or extend a branch
LimitInputs ==
    {PlainData(n) : n \in Nums}
    \cup {[PlainData(1) EXCEPT !.branchFromThought = 1, !.branchId = b] : b \in BranchNames}

\* thoughts whose raw text is a letter, whitespace, a control character, or a mix
ContentInputs ==
    {[PlainData(n) EXCEPT !.thought = text] :
        n \in Nums,
        text \in {<<Letter>>, <<Blank>>, <<Control>>, <<Blank, Control>>,
                  <<Control, Letter, Blank>>}}
    \cup {[PlainData(n) EXCEPT !.thought = text, !.branchFromThought = 1, !.branchId = "b1"] :
             n \in Nums, text \in {<<Letter>>, <<Control>>}}

\* plain thoughts, hypotheses and verifications of thought 1
ProjectionInputs ==
    {PlainData(n) : n \in Nums}
    \cup {[PlainData(n) EXCEPT !.thoughtType = "hypothesis"] : n \in Nums}
    \cup {[PlainData(n) EXCEPT !.thoughtType = "verification", !.relatedTo = <<1>>,
                               !.verificationResult = res] :
             n \in Nums, res \in {"confirmed", "refuted"}}

DirectiveInputs ==
    {[PlainData(1) EXCEPT !.directive = "saveSequence"] @@ [saveSequence |-> [title |-> <<Upper, Second>>]],
     [PlainData(1) EXCEPT !.directive = "saveSequence"] @@ [saveSequence |-> [title |-> <<>>]],
     [PlainData(1) EXCEPT !.directive = "saveSequence", !.isRevision = TRUE]
        @@ [saveSequence |-> [title |-> <<Upper, Second>>]]}

\* ids a loadSequence directive may name
SequenceIds == 1..MaxCalls

LoadInputs ==
    {[PlainData(1) EXCEPT !.directive = "loadSequence"] @@ [loadSequence |-> id] :
        id \in SequenceIds}

\* an absent searchSequence.query
NoQuery == <<Undef>>

\* an absent description, and the NULL of the column description
NoDescription == <<Undef>>

\* the description property of a saveSequence directive or of a SequenceRecord
DescriptionOf(record) ==
    IF "description" \in DOMAIN record THEN record.description ELSE NoDescription

\* description || null (line 590)
DescriptionOrNull(record) ==
    IF DescriptionOf(record) = <<>> THEN NoDescription ELSE DescriptionOf(record)

\* search directives: no query, a blank query, an empty query, queries of
\* letters; limit absent (0) or 1; over titles or over thought content
SearchInputs ==
    {[PlainData(1) EXCEPT !.directive = "searchSequence"]
        @@ [searchSequence |-> [query |-> q, limit |-> l, contentSearch |-> c]] :
        q \in {NoQuery, <<>>, <<Blank>>, <<Letter>>, <<Second>>, <<Letter, Second>>},
        l \in {0, 1}, c \in BOOLEAN}
    \cup {[PlainData(1) EXCEPT !.directive = "searchSequence", !.thought = <<>>]
             @@ [searchSequence |-> [query |-> NoQuery, limit |-> 0, contentSearch |-> FALSE]]}

\* the strings 'strategy', 'Strategy' and 'Strategic Plan'
strategy == <<"s", "t", "r", "a", "t", "e", "g", "y">>

Strategy == <<"S", "t", "r", "a", "t", "e", "g", "y">>

StrategicPlan == <<"S", "t", "r", "a", "t", "e", "g", "i", "c", " ", "P", "l", "a", "n">>

\* saves under the two titles
StrategySaves ==
    {[PlainData(1) EXCEPT !.directive = "saveSequence"] @@ [saveSequence |-> [title |-> title]] :
        title \in {Strategy, StrategicPlan}}

\* search("strategy", 10, false), with the limit given and left to its default
StrategySearches ==
    {[PlainData(1) EXCEPT !.directive = "searchSequence"]
        @@ [searchSequence |-> [query |-> strategy, limit |-> l, contentSearch |-> FALSE]] :
        l \in {0, 10}}

\* the title 'a b', which has the letters of 'ab' but does not contain it
Spaced == <<Letter, Blank, Second>>

\* the title 'ba'
Swapped == <<Second, Letter>>

\* saves under short titles, with and without a description
TitledSaves ==
    {[PlainData(1) EXCEPT !.directive = "saveSequence"] @@ [saveSequence |-> save] :
        save \in {[title |-> <<Upper, Second>>], [title |-> Spaced], [title |-> Swapped],
                  [title |-> Swapped, description |-> <<Letter, Second>>],
                  [title |-> Swapped, description |-> <<>>]}}

\* fuzzy searches for 'ab', 'b' and a blank, the limit absent or 1
FuzzySearches ==
    {[PlainData(1) EXCEPT !.directive = "searchSequence"]
        @@ [searchSequence |-> [query |-> q, limit |-> l, contentSearch |-> FALSE]] :
        q \in {<<Letter, Second>>, <<Second>>, <<Blank>>}, l \in {0, 1}}

\* the first two sequences
SavedIds == {1, 2}

ExportInputs ==
    {[PlainData(1) EXCEPT !.directive = "exportSequence"] @@ [exportSequence |-> id] :
        id \in SequenceIds}
    \cup {[PlainData(1) EXCEPT !.directive = "exportSequence", !.thought = <<>>]
             @@ [exportSequence |-> 1]}

\* a stored thought of branch b
BranchRecord(n, b) ==
    [thought |-> <<Letter>>, thoughtNumber |-> n, totalThoughts |-> MaxNum,
     nextThoughtNeeded |-> TRUE, isRevision |-> FALSE, revisesThought |-> 0,
     branchFromThought |-> 1, branchId |-> b, thoughtType |-> Undef,
     verificationResult |-> Undef, relatedTo |-> <<>>]

\* exported sequences offered to importSequence: one with a thought in each of
\* three branches, one with main-line thoughts in descending order, one whose
\* second thought has a thoughtType that table thoughts does not admit
ImportInputs ==
    {[PlainData(1) EXCEPT !.directive = "importSequence"] @@ [importSequence |-> [data |-> data]] :
        data \in {[sequence |-> [title |-> <<Letter>>],
                   thoughts |-> <<BranchRecord(MaxNum, "b1"), BranchRecord(MaxNum, "b2"),
                                  BranchRecord(1, "b3")>>],
                  [sequence |-> [title |-> <<Letter>>],
                   thoughts |-> <<[BranchRecord(MaxNum, Undef) EXCEPT !.branchFromThought = 0],
                                  [BranchRecord(1, Undef) EXCEPT !.branchFromThought = 0]>>],
                  [sequence |-> [title |-> <<Letter>>],
                   thoughts |-> <<[BranchRecord(1, Undef) EXCEPT !.branchFromThought = 0],
                                  [BranchRecord(MaxNum, Undef) EXCEPT !.branchFromThought = 0,
                                                                !.thoughtType = "observation"]>>]}}

\* String.prototype.trim on a sequence of characters
RECURSIVE TrimLeft(_)
TrimLeft(str) ==
    IF str # <<>> /\ Head(str) = Blank THEN TrimLeft(Tail(str)) ELSE str

RECURSIVE TrimRight(_)
TrimRight(str) ==
    IF str # <<>> /\ str[Len(str)] = Blank THEN TrimRight(SubSeq(str, 1, Len(str) - 1)) ELSE str

\* sanitizeThoughtContent (lines 452-455)
sanitizeThoughtContent(content) ==
    LET NotControl(c) == c # Control
    IN TrimRight(TrimLeft(SelectSeq(content, NotControl)))

\* the logical-consistency rule of validateThoughtData (lines 1119-1121)
RevisionConsistency(data) == data.isRevision /\ data.revisesThought = 0

\* validateThoughtData (lines 1054-1145): OK, or the message of the Error thrown
validateThoughtData(data) ==
    IF data.thought = <<>> THEN "Invalid thought: must be a non-empty string"
    ELSE IF Len(data.thought) > MaxThoughtLength
    THEN "Invalid thought: must be between 1 and 10000 characters"
    ELSE IF data.thoughtNumber < 1 THEN "Invalid thoughtNumber: must be a positive integer"
    ELSE IF data.totalThoughts < 1 THEN "Invalid totalThoughts: must be a positive integer"
    ELSE IF RevisionConsistency(data)
    THEN "revisesThought is required when isRevision is true"
    ELSE IF data.branchFromThought # 0 /\ data.branchId = Undef
    THEN "branchId is required when branchFromThought is specified"
    ELSE IF data.verificationResult # Undef /\ data.thoughtType # "verification"
    THEN "verificationResult can only be used with thoughtType=verification"
    ELSE OK

\* validateSequenceThoughtData (lines 968-1052): the directive's own fields,
\* then validateThoughtData
validateSequenceThoughtData(data) ==
    IF data.directive = "saveSequence" /\ data.saveSequence.title = <<>>
    THEN "Invalid saveSequence.title: must be a non-empty string"
    ELSE IF data.directive = "searchSequence" /\ data.searchSequence.query = <<>>
    THEN "Invalid searchSequence.query: must be a non-empty string"
    ELSE validateThoughtData(data)

\* the adjustment left out: totalThoughts stays as submitted
adjustTotalThoughtsNever(data) == data.totalThoughts

\* the dynamic adjustment of totalThoughts (lines 1896-1898; the tool handler of
\* session-manager.ts makes the same assignment at its lines 431-433)
adjustTotalThoughts(data) ==
    IF data.thoughtNumber > data.totalThoughts THEN data.thoughtNumber ELSE data.totalThoughts

\* the ThoughtData returned by validateThoughtData (lines 1131-1144), with
\* totalThoughts adjusted by processThought (lines 1896-1898)
ValidatedInput(data) ==
    [thought |-> sanitizeThoughtContent(data.thought),
     thoughtNumber |-> data.thoughtNumber,
     totalThoughts |-> adjustTotalThoughts(data),
     nextThoughtNeeded |-> data.nextThoughtNeeded,
     isRevision |-> data.isRevision,
     revisesThought |-> data.revisesThought,
     branchFromThought |-> data.branchFromThought,
     branchId |-> data.branchId,
     thoughtType |-> data.thoughtType,
     verificationResult |-> data.verificationResult,
     relatedTo |-> data.relatedTo]

\* Object.keys(this.branches)
BranchKeys(bs) == [i \in 1..Len(bs) |-> bs[i].id]

HasBranch(bs, id) == \E i \in 1..Len(bs) : bs[i].id = id

\* this.branches[id].push(thought), creating the list first when absent (lines 1909-1914)
BranchPush(bs, id, thought) ==
    IF HasBranch(bs, id)
    THEN [i \in 1..Len(bs) |->
            IF bs[i].id = id THEN [bs[i] EXCEPT !.thoughts = Append(@, thought)] ELSE bs[i]]
    ELSE Append(bs, [id |-> id, thoughts |-> <<thought>>])

\* Array.prototype.slice(-n)
SliceLast(seq, n) ==
    IF n = 0 \/ Len(seq) <= n THEN seq ELSE SubSeq(seq, Len(seq) - n + 1, Len(seq))

\* a cleanup that keeps the oldest thoughts
cleanupKeepingOldest(history) ==
    IF Len(history) > maxThoughtHistory THEN SubSeq(history, 1, maxThoughtHistory) ELSE history

\* cleanupOldThoughts (lines 1147-1152)
cleanupOldThoughts(history) ==
    IF Len(history) > maxThoughtHistory THEN SliceLast(history, maxThoughtHistory) ELSE history

LastNumber(branch) == branch.thoughts[Len(branch.thoughts)].thoughtNumber

\* Array.prototype.sort with the comparator of lines 1160-1164 (stable, descending
\* by the thoughtNumber of each branch's last thought)
RECURSIVE SortBranches(_)
SortBranches(bs) ==
    IF bs = <<>> THEN <<>>
    ELSE LET x == bs[Len(bs)]
             sorted == SortBranches(SubSeq(bs, 1, Len(bs) - 1))
             IsBefore(b) == LastNumber(b) >= LastNumber(x)
             NotBefore(b) == ~IsBefore(b)
         IN SelectSeq(sorted, IsBefore) \o <<x>> \o SelectSeq(sorted, NotBefore)

\* cleanupOldBranches (lines 1154-1179)
cleanupOldBranches(bs) ==
    LET sortedBranches == SortBranches(bs)
        toRemove == IF Len(bs) > maxBranches
                    THEN {sortedBranches[i].id : i \in (maxBranches + 1)..Len(bs)}
                    ELSE {}
        Kept(b) == b.id \notin toRemove
        kept == SelectSeq(bs, Kept)
    IN [i \in 1..Len(kept) |->
          IF Len(kept[i].thoughts) > maxThoughtsPerBranch
          THEN [kept[i] EXCEPT !.thoughts = SliceLast(@, maxThoughtsPerBranch)]
          ELSE kept[i]]

\* validateBranchLimits (lines 1181-1185), when processThought calls it (lines 1901-1903)
validateBranchLimits(bs, data) ==
    IF /\ data.branchFromThought # 0 /\ data.branchId # Undef
       /\ Len(bs) >= maxBranches /\ ~HasBranch(bs, data.branchId)
    THEN "Maximum number of branches exceeded"
    ELSE OK

\* a getHypothesesNeedingVerification that takes any verification as covering
\* every hypothesis
getHypothesesWithoutAnyVerification(history) ==
    LET IsHypothesis(t) == t.thoughtType = "hypothesis"
        IsVerification(t) == t.thoughtType = "verification"
    IN IF SelectSeq(history, IsVerification) = <<>>
       THEN SelectSeq(history, IsHypothesis) ELSE <<>>

\* getHypothesesNeedingVerification at its return (lines 1203-1213): the three
\* calls of filter build hypotheses, verifications and the returned array anew
hypothesesNeeding(history) ==
    LET IsHypothesis(t) == t.thoughtType = "hypothesis"
        IsVerification(t) == t.thoughtType = "verification"
        hypotheses == SelectSeq(history, IsHypothesis)
        verifications == SelectSeq(history, IsVerification)
        Unverified(hypothesis) ==
            ~\E i \in 1..Len(verifications) :
                Includes(verifications[i].relatedTo, hypothesis.thoughtNumber)
    IN [thoughtHistory |-> history, hypotheses |-> hypotheses, verifications |-> verifications,
        returned |-> SelectSeq(hypotheses, Unverified)]

\* getHypothesesNeedingVerification (lines 1203-1213)
getHypothesesNeedingVerification(history) == hypothesesNeeding(history).returned

\* the callback of forEach (lines 1194-1198) on the thought at index: a
\* verification with a result raises the counter of status for its result
countVerification(frame) ==
    LET thought == frame.thoughtHistory[frame.index]
    IN IF thought.thoughtType = "verification" /\ thought.verificationResult # Undef
       THEN [frame EXCEPT !.status[thought.verificationResult] = @ + 1, !.index = @ + 1]
       ELSE [frame EXCEPT !.index = @ + 1]

RECURSIVE countVerifications(_)
\* this.thoughtHistory.forEach (lines 1194-1198) from the thought at index on
countVerifications(frame) ==
    IF frame.index > Len(frame.thoughtHistory) THEN frame
    ELSE countVerifications(countVerification(frame))

\* getVerificationStatus at its return (line 1200)
verificationsCounted(history) ==
    countVerifications([thoughtHistory |-> history, index |-> 1,
                        status |-> [confirmed |-> 0, refuted |-> 0, partial |-> 0,
                                    pending |-> 0]])

\* getVerificationStatus (lines 1191-1201)
getVerificationStatus(history) == verificationsCounted(history).status

\* one call of getVerificationStatus and then of getHypothesesNeedingVerification
\* (lines 1191-1213), as getVerificationStatusResource makes it (lines
\* 1361-1362): this.thoughtHistory is as the statements of the two left it,
\* and they name no other field of the server
callVerificationProjection ==
    /\ impl = "server"
    /\ calls < budget
    /\ LET counted == verificationsCounted(thoughtHistory)
           needing == hypothesesNeeding(counted.thoughtHistory)
       IN /\ last' = [op |-> "getVerificationStatus", error |-> OK,
                      verificationStatus |-> counted.status,
                      unverifiedHypotheses |-> needing.returned]
          /\ thoughtHistory' = needing.thoughtHistory
    /\ before' = [state |-> [thoughtHistory |-> thoughtHistory, branches |-> branches,
                             currentSequenceId |-> currentSequenceId,
                             sequences |-> sequences, thoughtRows |-> thoughtRows],
                  last |-> last]
    /\ calls' = calls + 1
    /\ UNCHANGED <<branches, currentSequenceId, sequences, thoughtRows>>
    /\ UNCHANGED <<impl, limits, budget, clock, inflight, managerVars, submissions, indexVars>>

\* a processThought that never asks validateBranchLimits
processThoughtErrorWithoutLimits(data) == validateSequenceThoughtData(data)

\* the Error caught by processThought for a thought submission, or OK
processThoughtError(data) ==
    IF validateSequenceThoughtData(data) # OK THEN validateSequenceThoughtData(data)
    ELSE validateBranchLimits(branches, data)

\* the main line after a thought is pushed (line 1906)
PushThought(history, thought) == Append(history, thought)

\* a row written under the oldest sequence whatever the active one
ThoughtRowOfFirstSequence(thought, sequenceId) ==
    [sequenceId |-> 1,
     thought |-> thought.thought,
     thoughtNumber |-> thought.thoughtNumber,
     totalThoughts |-> thought.totalThoughts,
     isRevision |-> IF thought.isRevision THEN 1 ELSE 0,
     revisesThought |-> thought.revisesThought,
     branchFromThought |-> thought.branchFromThought,
     branchId |-> thought.branchId,
     nextThoughtNeeded |-> IF thought.nextThoughtNeeded THEN 1 ELSE 0,
     thoughtType |-> thought.thoughtType,
     verificationResult |-> thought.verificationResult,
     relatedTo |-> thought.relatedTo]

\* a row of table thoughts written by saveThought (lines 754-786)
ThoughtRow(thought, sequenceId) ==
    [sequenceId |-> sequenceId,
     thought |-> thought.thought,
     thoughtNumber |-> thought.thoughtNumber,
     totalThoughts |-> thought.totalThoughts,
     isRevision |-> IF thought.isRevision THEN 1 ELSE 0,
     revisesThought |-> thought.revisesThought,
     branchFromThought |-> thought.branchFromThought,
     branchId |-> thought.branchId,
     nextThoughtNeeded |-> IF thought.nextThoughtNeeded THEN 1 ELSE 0,
     thoughtType |-> thought.thoughtType,
     verificationResult |-> thought.verificationResult,
     relatedTo |-> thought.relatedTo]

\* the ThoughtRecord loadSequenceThoughts makes of a row (lines 648-665)
ThoughtRecordOf(row) ==
    [thought |-> row.thought,
     thoughtNumber |-> row.thoughtNumber,
     totalThoughts |-> row.totalThoughts,
     nextThoughtNeeded |-> row.nextThoughtNeeded # 0,
     isRevision |-> row.isRevision # 0,
     revisesThought |-> row.revisesThought,
     branchFromThought |-> row.branchFromThought,
     branchId |-> row.branchId,
     thoughtType |-> row.thoughtType,
     verificationResult |-> row.verificationResult,
     relatedTo |-> row.relatedTo]

\* ORDER BY thoughtNumber ASC over rows in insertion order: index
\* idx_thoughts_number (lines 538-540) yields equal numbers in rowid order
RECURSIVE OrderByThoughtNumber(_)
OrderByThoughtNumber(rows) ==
    IF rows = <<>> THEN <<>>
    ELSE LET x == rows[Len(rows)]
             sorted == OrderByThoughtNumber(SubSeq(rows, 1, Len(rows) - 1))
             NotAfter(r) == r.thoughtNumber <= x.thoughtNumber
             After(r) == r.thoughtNumber > x.thoughtNumber
         IN SelectSeq(sorted, NotAfter) \o <<x>> \o SelectSeq(sorted, After)

\* the result of the SELECT and the map of loadSequenceThoughts (lines 641-665)
\* over the rows of table thoughts
SequenceThoughts(thoughtsTable, sequenceId) ==
    LET OfSequence(row) == row.sequenceId = sequenceId
        rows == OrderByThoughtNumber(SelectSeq(thoughtsTable, OfSequence))
    IN [i \in 1..Len(rows) |-> ThoughtRecordOf(rows[i])]

\* loadSequenceThoughts (lines 634-671)
loadSequenceThoughts(sequenceId) == SequenceThoughts(thoughtRows, sequenceId)

\* this.branches rebuilt from the loaded thoughts (lines 1836-1844)
RECURSIVE RebuildBranches(_)
RebuildBranches(sequenceThoughts) ==
    IF sequenceThoughts = <<>> THEN <<>>
    ELSE LET thought == sequenceThoughts[Len(sequenceThoughts)]
             bs == RebuildBranches(SubSeq(sequenceThoughts, 1, Len(sequenceThoughts) - 1))
         IN IF thought.branchFromThought # 0 /\ thought.branchId # Undef
            THEN BranchPush(bs, thought.branchId, thought)
            ELSE bs

\* a saveThought that replaces the stored row of the same sequence and number
saveThoughtReplacing(rows, thought, sequenceId) ==
    LET Other(row) == ~(row.sequenceId = sequenceId /\ row.thoughtNumber = thought.thoughtNumber)
    IN Append(SelectSeq(rows, Other), ThoughtRow(thought, sequenceId))

\* table thoughts after saveThought (lines 754-786): one INSERT
saveThought(rows, thought, sequenceId) == Append(rows, ThoughtRow(thought, sequenceId))

\* table sequences after updateSequenceModified (lines 788-809): one UPDATE,
\* of no row when no sequence has the id; now is the new Date() of line 795,
\* read when the UPDATE was issued
updateSequenceModified(seqs, sequenceId, thoughtCount, now) ==
    IF sequenceId \in DOMAIN seqs
    THEN [seqs EXCEPT ![sequenceId].thoughtCount = thoughtCount,
                      ![sequenceId].lastModified = now]
    ELSE seqs

ServerState ==
    [thoughtHistory |-> thoughtHistory, branches |-> branches,
     currentSequenceId |-> currentSequenceId, sequences |-> sequences,
     thoughtRows |-> thoughtRows]

(* processThought is an async function and the CallToolRequestSchema handler *)
(* (lines 2343-2355) awaits nothing before calling it, so a call runs up to  *)
(* its first await when the request arrives, and each later part runs when   *)
(* the awaited statement has ended; other calls are invoked in between.  The *)
(* Database is in its default, parallel mode at that time (serialize is in   *)
(* force only inside initializeDatabase, line 499), so the statements        *)
(* outstanding at one time end in any order.                                 *)

\* calls that may be suspended at one time
MaxOverlap == 2

\* a call suspended at an await: the statement it waits for with its arguments
\* (now is the time the statement was issued at) and the locals of the call:
\* index is the position of the for-of loop of line 1874 or thoughtIndex of
\* importSequence; live says that the loop iterates the array
\* this.thoughtHistory still refers to, iterated is its array otherwise;
\* found is the row loadSequence resolved for exportSequence
Suspended(input, pc, sequenceId, thoughtCount) ==
    [input |-> input, pc |-> pc, sequenceId |-> sequenceId, thoughtCount |-> thoughtCount,
     now |-> 0, index |-> 0, live |-> FALSE, iterated |-> <<>>, found |-> <<>>]

\* this.thoughtHistory is assigned another array: a for-of loop that iterates
\* the array it held goes on over that array
Reassigned(suspended, array) ==
    [k \in 1..Len(suspended) |->
        IF suspended[k].live
        THEN [suspended[k] EXCEPT !.live = FALSE, !.iterated = array]
        ELSE suspended[k]]

\* the suspended calls after cleanupOldThoughts (lines 1147-1152), which
\* assigns a slice when the main line is over its limit
AfterCleanup(suspended, history) ==
    IF Len(history) > maxThoughtHistory THEN Reassigned(suspended, history) ELSE suspended

\* inflight without its i-th call
Returned(i) == SubSeq(inflight, 1, i - 1) \o SubSeq(inflight, i + 1, Len(inflight))

\* inflight with its i-th call suspended at another await
Awaiting(i, call) == [inflight EXCEPT ![i] = call]

\* a call is invoked. `last` lists the calls invoked since no call was
\* suspended (with the operation that had ended before, for a loadSequence)
\* and `before` is the state then; returned holds the response of the call
\* when it returns in this step
Invoked(input, returned) ==
    /\ Len(inflight) < MaxOverlap
    /\ IF inflight = <<>>
       THEN /\ last' = [op |-> "invoked", params |-> <<input>>, error |-> OK,
                        after |-> IF input.directive = "loadSequence"
                                  THEN [op |-> last.op, error |-> last.error]
                                  ELSE [op |-> Undef, error |-> OK],
                        returned |-> returned]
            /\ before' = ServerState
       ELSE /\ last.op = "invoked"
            /\ Len(last.params) < MaxOverlap
            /\ last' = [last EXCEPT !.params = Append(@, input), !.returned = returned]
            /\ UNCHANGED before

\* a suspended call responds: it is the last operation when no other call
\* was invoked since this one was
Responds(response) ==
    last' = IF Len(last.params) = 1
            THEN response
            ELSE [last EXCEPT !.returned = <<response>>]

\* the i-th suspended call returns response
Returns(i, response) ==
    /\ inflight' = Returned(i)
    /\ Responds(response)

\* a call returns response in the step in which it is invoked
ReturnsAtOnce(response) ==
    IF inflight = <<>>
    THEN /\ last' = response
         /\ before' = ServerState
    ELSE Invoked(response.params, <<response>>)

\* a suspended call goes on to its next await
GoesOn(i, call) ==
    /\ inflight' = Awaiting(i, call)
    /\ last' = [last EXCEPT !.returned = <<>>]

\* the response of lines 1926-1969 to an accepted thought
ThoughtResponse(input, history) ==
    [op |-> "processThought", params |-> input, error |-> OK,
     totalThoughts |-> ValidatedInput(input).totalThoughts,
     thoughtHistoryLength |-> Len(history),
     unverifiedHypothesesCount |-> Len(getHypothesesNeedingVerification(history))]

\* the errorResponse of the catch of lines 1970-1984
ErrorResponse(op, input, error) == [op |-> op, params |-> input, error |-> error]

\* processThought (lines 1761-1985) invoked for a submission without
\* directive: lines 1763-1918, up to the await of saveThought; to the end when
\* no sequence is active or the thought is rejected
processThought(input) ==
    /\ impl = "server"
    /\ calls < budget
    /\ input.directive = "none"
    /\ LET error == processThoughtError(input)
           validatedInput == ValidatedInput(input)
           pushed == PushThought(thoughtHistory, validatedInput)
           branched == IF input.branchFromThought # 0 /\ input.branchId # Undef
                       THEN BranchPush(branches, input.branchId, validatedInput)
                       ELSE branches
       IN IF error # OK
          THEN /\ ReturnsAtOnce(ErrorResponse("processThought", input, error))
               /\ UNCHANGED <<thoughtHistory, branches, submissions, inflight>>
          ELSE IF currentSequenceId # 0
          THEN /\ Invoked(input, <<>>)
               /\ thoughtHistory' = pushed
               /\ branches' = branched
               /\ submissions' = Append(submissions, validatedInput)
               /\ inflight' = Append(inflight,
                                     Suspended(input, "saveThought", currentSequenceId, 0))
          ELSE /\ thoughtHistory' = cleanupOldThoughts(pushed)
               /\ branches' = cleanupOldBranches(branched)
               /\ submissions' = Append(submissions, validatedInput)
               /\ ReturnsAtOnce(ThoughtResponse(input, thoughtHistory'))
               /\ inflight' = AfterCleanup(inflight, pushed)
    /\ calls' = calls + 1
    /\ UNCHANGED <<currentSequenceId, sequences, thoughtRows>>
    /\ UNCHANGED <<impl, limits, budget, clock, managerVars, indexVars>>

\* the INSERT of saveThought has ended: line 1919 reads this.currentSequenceId
\* and this.thoughtHistory.length and awaits updateSequenceModified, which
\* reads now from new Date() (line 795) as it issues its UPDATE
saveThoughtDone(i) ==
    /\ i \in 1..Len(inflight)
    /\ inflight[i].pc = "saveThought"
    /\ thoughtRows' = saveThought(thoughtRows, ValidatedInput(inflight[i].input),
                                  inflight[i].sequenceId)
    /\ GoesOn(i, [Suspended(inflight[i].input, "updateSequenceModified",
                            currentSequenceId, Len(thoughtHistory))
                     EXCEPT !.now = clock])
    /\ UNCHANGED <<thoughtHistory, branches, currentSequenceId, sequences, submissions>>
    /\ UNCHANGED <<impl, limits, budget, clock, managerVars, indexVars, calls, before>>

\* the UPDATE of updateSequenceModified has ended: the cleanup of lines
\* 1923-1924, and the call returns its response
updateSequenceModifiedDone(i) ==
    /\ i \in 1..Len(inflight)
    /\ inflight[i].pc = "updateSequenceModified"
    /\ sequences' = updateSequenceModified(sequences, inflight[i].sequenceId,
                                           inflight[i].thoughtCount, inflight[i].now)
    /\ thoughtHistory' = cleanupOldThoughts(thoughtHistory)
    /\ branches' = cleanupOldBranches(branches)
    /\ inflight' = AfterCleanup(Returned(i), thoughtHistory)
    /\ Responds(ThoughtResponse(inflight[i].input, thoughtHistory'))
    /\ UNCHANGED <<currentSequenceId, thoughtRows, submissions>>
    /\ UNCHANGED <<impl, limits, budget, clock, managerVars, indexVars, calls, before>>

\* the message of the Error sqlite3 passes to a callback when a statement fails
WriteError == "SQLITE_ERROR"

\* the statement a suspended submission awaits fails: saveThought or
\* updateSequenceModified rejects (lines 1918-1919) and the catch of lines
\* 1970-1984 returns; the thought has been pushed, the row is stored when the
\* UPDATE is the statement that fails, the cleanup of lines 1923-1924 is not
\* reached
processThoughtWriteFails(i) ==
    /\ i \in 1..Len(inflight)
    /\ inflight[i].pc \in {"saveThought", "updateSequenceModified"}
    /\ Returns(i, [op |-> "processThought", params |-> inflight[i].input,
                   error |-> WriteError, rejecting |-> inflight[i].pc])
    /\ UNCHANGED <<serverVars, submissions>>
    /\ UNCHANGED <<impl, limits, budget, clock, managerVars, indexVars, calls, before>>

\* the result processThought returns: the response of lines 1964-1969, or the
\* errorResponse its catch builds from any Error (lines 1970-1984)
processThoughtResult ==
    IF last.error = OK
    THEN [isError |-> FALSE, status |-> Undef, error |-> Undef]
    ELSE [isError |-> TRUE, status |-> "failed", error |-> last.error]

RECURSIVE RowsOf(_, _)
\* the rows written by the loop of lines 1874-1876
RowsOf(history, sequenceId) ==
    IF history = <<>> THEN <<>>
    ELSE <<ThoughtRow(Head(history), sequenceId)>> \o RowsOf(Tail(history), sequenceId)

\* an id generator that yields the id of the newest sequence again
generateIdOfNewest == IF sequences = <<>> THEN 1 ELSE Cardinality(DOMAIN sequences)

\* generateId (lines 575-577), Date.now() followed by Math.random(), both in
\* base 36, when it yields an id no sequence has: the next free number
generateId == Cardinality(DOMAIN sequences) + 1

\* the message of the Error sqlite3 passes when an INSERT breaks PRIMARY KEY
ConstraintError == "SQLITE_CONSTRAINT"

\* processThought invoked for a saveSequence directive: up to the await of
\* createSequence (line 1868), which has read now from new Date() (line 587)
\* and issued its INSERT; to the end when validation rejects the input
saveSequence(input) ==
    /\ impl = "server"
    /\ calls < budget
    /\ input.directive = "saveSequence"
    /\ LET error == validateSequenceThoughtData(input) IN
          IF error # OK
          THEN /\ ReturnsAtOnce(ErrorResponse("saveSequence", input, error))
               /\ UNCHANGED inflight
          ELSE /\ Invoked(input, <<>>)
               /\ inflight' = Append(inflight,
                                     [Suspended(input, "createSequence", 0, 0)
                                         EXCEPT !.now = clock])
    /\ calls' = calls + 1
    /\ UNCHANGED <<serverVars, submissions>>
    /\ UNCHANGED <<impl, limits, budget, clock, managerVars, indexVars>>

\* the INSERT of createSequence (lines 580-601) has ended: the for-of loop of
\* lines 1874-1876 begins over this.thoughtHistory and awaits the saveThought
\* of its first thought; line 1878 awaits updateSequenceModified, which reads
\* now from new Date() (line 795), when the main line is empty
createSequenceDone(i) ==
    /\ i \in 1..Len(inflight)
    /\ inflight[i].pc = "createSequence"
    /\ LET call == inflight[i]
           sequenceId == generateId
       IN /\ sequences' = MapSet(sequences, sequenceId,
                                 [title |-> call.input.saveSequence.title,
                                  description |-> DescriptionOrNull(call.input.saveSequence),
                                  thoughtCount |-> 0,
                                  lastModified |-> call.now])
          /\ GoesOn(i, IF thoughtHistory = <<>>
                       THEN [call EXCEPT !.pc = "saveSequence.updateSequenceModified",
                                         !.sequenceId = sequenceId,
                                         !.thoughtCount = 0,
                                         !.now = clock]
                       ELSE [call EXCEPT !.pc = "saveSequence.saveThought",
                                         !.sequenceId = sequenceId,
                                         !.now = 0,
                                         !.index = 1,
                                         !.live = TRUE])
    /\ UNCHANGED <<thoughtHistory, branches, currentSequenceId, thoughtRows, submissions>>
    /\ UNCHANGED <<impl, limits, budget, clock, managerVars, indexVars, calls, before>>

\* the INSERT of a saveThought of the loop (line 1875) has ended: the loop
\* goes on to the next thought of its array, or line 1878 reads
\* this.thoughtHistory.length and awaits updateSequenceModified, which reads
\* now from new Date() (line 795)
saveSequenceThoughtDone(i) ==
    /\ i \in 1..Len(inflight)
    /\ inflight[i].pc = "saveSequence.saveThought"
    /\ LET call == inflight[i]
           array == IF call.live THEN thoughtHistory ELSE call.iterated
       IN /\ thoughtRows' = saveThought(thoughtRows, array[call.index], call.sequenceId)
          /\ GoesOn(i, IF call.index < Len(array)
                       THEN [call EXCEPT !.index = @ + 1]
                       ELSE [call EXCEPT !.pc = "saveSequence.updateSequenceModified",
                                         !.thoughtCount = Len(thoughtHistory),
                                         !.now = clock,
                                         !.index = 0,
                                         !.live = FALSE,
                                         !.iterated = <<>>])
    /\ UNCHANGED <<thoughtHistory, branches, currentSequenceId, sequences, submissions>>
    /\ UNCHANGED <<impl, limits, budget, clock, managerVars, indexVars, calls, before>>

\* the UPDATE of updateSequenceModified (line 1878) has ended: line 1879
\* makes the sequence the active one and the call returns the response of
\* lines 1881-1892
saveSequenceModifiedDone(i) ==
    /\ i \in 1..Len(inflight)
    /\ inflight[i].pc = "saveSequence.updateSequenceModified"
    /\ sequences' = updateSequenceModified(sequences, inflight[i].sequenceId,
                                           inflight[i].thoughtCount, inflight[i].now)
    /\ currentSequenceId' = inflight[i].sequenceId
    /\ Returns(i, [op |-> "saveSequence", params |-> inflight[i].input, error |-> OK,
                   thoughtHistoryLength |-> Len(thoughtHistory)])
    /\ UNCHANGED <<thoughtHistory, branches, thoughtRows, submissions>>
    /\ UNCHANGED <<impl, limits, budget, clock, managerVars, indexVars, calls, before>>

\* the statement a suspended saveSequence directive awaits fails (disk full,
\* I/O error): the INSERT of createSequence, a saveThought of the loop or the
\* UPDATE of updateSequenceModified rejects and the catch of lines 1970-1984
\* returns; the statements before it have been applied
saveSequenceWriteFails(i) ==
    /\ i \in 1..Len(inflight)
    /\ inflight[i].pc \in {"createSequence", "saveSequence.saveThought",
                           "saveSequence.updateSequenceModified"}
    /\ Returns(i, [op |-> "saveSequence", params |-> inflight[i].input,
                   error |-> WriteError])
    /\ UNCHANGED <<serverVars, submissions>>
    /\ UNCHANGED <<impl, limits, budget, clock, managerVars, indexVars, calls, before>>

\* processThought invoked for a loadSequence directive: up to the await of
\* loadSequence (line 1825); to the end when validation rejects the input
loadSequence(input) ==
    /\ impl = "server"
    /\ calls < budget
    /\ input.directive = "loadSequence"
    /\ LET error == validateSequenceThoughtData(input) IN
          IF error # OK
          THEN /\ ReturnsAtOnce(ErrorResponse("loadSequence", input, error))
               /\ UNCHANGED inflight
          ELSE /\ Invoked(input, <<>>)
               /\ inflight' = Append(inflight,
                                     Suspended(input, "loadSequence", input.loadSequence, 0))
    /\ calls' = calls + 1
    /\ UNCHANGED <<serverVars, submissions>>
    /\ UNCHANGED <<impl, limits, budget, clock, managerVars, indexVars>>

\* the SELECT of loadSequence has ended: the call throws when no sequence has
\* the id (lines 1826-1828) and awaits loadSequenceThoughts otherwise
loadSequenceDone(i) ==
    /\ i \in 1..Len(inflight)
    /\ inflight[i].pc = "loadSequence"
    /\ IF inflight[i].sequenceId \in DOMAIN sequences
       THEN GoesOn(i, Suspended(inflight[i].input, "loadSequenceThoughts",
                                inflight[i].sequenceId, 0))
       ELSE Returns(i, ErrorResponse("loadSequence", inflight[i].input, "Sequence not found"))
    /\ UNCHANGED <<serverVars, submissions>>
    /\ UNCHANGED <<impl, limits, budget, clock, managerVars, indexVars, calls, before>>

\* the SELECT of loadSequenceThoughts has ended: lines 1832-1844, and the
\* call returns the response of lines 1846-1863
loadSequenceThoughtsDone(i) ==
    /\ i \in 1..Len(inflight)
    /\ inflight[i].pc = "loadSequenceThoughts"
    /\ LET sequenceThoughts == loadSequenceThoughts(inflight[i].sequenceId) IN
          /\ thoughtHistory' = sequenceThoughts
          /\ branches' = RebuildBranches(sequenceThoughts)
          /\ submissions' = sequenceThoughts
          /\ inflight' = Reassigned(Returned(i), thoughtHistory)
          /\ Responds([op |-> "loadSequence", params |-> inflight[i].input, error |-> OK,
                       thoughtsLoaded |-> Len(sequenceThoughts), after |-> last.after])
    /\ currentSequenceId' = inflight[i].sequenceId
    /\ UNCHANGED <<sequences, thoughtRows>>
    /\ UNCHANGED <<impl, limits, budget, clock, managerVars, indexVars, calls, before>>

\* the CHECK constraints of table thoughts (lines 524-525); NULL satisfies a
\* CHECK, and the NOT NULL columns are set in every thought of the model
RowAdmitted(row) ==
    /\ row.thoughtType \in {Undef, "hypothesis", "verification"}
    /\ row.verificationResult \in {Undef, "confirmed", "refuted", "partial", "pending"}

\* processThought invoked for an importSequence directive: up to the await of
\* importSequence (line 1810), which has read now from new Date() (line 690)
\* and issued the INSERT of lines 693-695; to the end when validation rejects
\* the input
importSequence(input) ==
    /\ impl = "server"
    /\ calls < budget
    /\ input.directive = "importSequence"
    /\ LET error == validateSequenceThoughtData(input) IN
          IF error # OK
          THEN /\ ReturnsAtOnce(ErrorResponse("importSequence", input, error))
               /\ UNCHANGED inflight
          ELSE /\ Invoked(input, <<>>)
               /\ inflight' = Append(inflight,
                                     [Suspended(input, "importSequence", 0, 0)
                                         EXCEPT !.now = clock])
    /\ calls' = calls + 1
    /\ UNCHANGED <<serverVars, submissions>>
    /\ UNCHANGED <<impl, limits, budget, clock, managerVars, indexVars>>

\* the INSERT into table sequences has ended (lines 696-699 passed):
\* insertNextThought (lines 733-747) issues the INSERT of the first thought,
\* or resolves when the bundle has no thought and the call returns the
\* response of lines 1811-1820
importSequenceDone(i) ==
    /\ i \in 1..Len(inflight)
    /\ inflight[i].pc = "importSequence"
    /\ LET call == inflight[i]
           data == call.input.importSequence.data
           newSequenceId == generateId
       IN /\ sequences' = MapSet(sequences, newSequenceId,
                                 [title |-> data.sequence.title,
                                  description |-> DescriptionOf(data.sequence),
                                  thoughtCount |-> Len(data.thoughts),
                                  lastModified |-> call.now])
          /\ IF data.thoughts = <<>>
             THEN Returns(i, [op |-> "importSequence", params |-> call.input, error |-> OK,
                             sequenceId |-> newSequenceId])
             ELSE GoesOn(i, [call EXCEPT !.pc = "insertThought",
                                         !.sequenceId = newSequenceId,
                                         !.index = 1])
    /\ UNCHANGED <<thoughtHistory, branches, currentSequenceId, thoughtRows, submissions>>
    /\ UNCHANGED <<impl, limits, budget, clock, managerVars, indexVars, calls, before>>

\* generateId has yielded the id of a stored sequence: the INSERT of lines
\* 693-695 breaks the PRIMARY KEY of table sequences (line 502) and
\* importSequence rejects (lines 696-699)
importSequenceIdTaken(i) ==
    /\ i \in 1..Len(inflight)
    /\ inflight[i].pc = "importSequence"
    /\ sequences # <<>>
    /\ Returns(i, [op |-> "importSequence", params |-> inflight[i].input,
                   error |-> ConstraintError])
    /\ UNCHANGED <<serverVars, submissions>>
    /\ UNCHANGED <<impl, limits, budget, clock, managerVars, indexVars, calls, before>>

\* the INSERT of insertThought (lines 703-728) has ended: the callback of
\* lines 739-746 rejects when the row broke a CHECK, goes on to the next
\* thought otherwise, and resolves after the last one
insertThoughtDone(i) ==
    /\ i \in 1..Len(inflight)
    /\ inflight[i].pc = "insertThought"
    /\ LET call == inflight[i]
           data == call.input.importSequence.data
           row == ThoughtRow(data.thoughts[call.index], call.sequenceId)
       IN IF ~RowAdmitted(row)
          THEN /\ Returns(i, [op |-> "importSequence", params |-> call.input,
                              error |-> ConstraintError])
               /\ UNCHANGED thoughtRows
          ELSE /\ thoughtRows' = Append(thoughtRows, row)
               /\ IF call.index < Len(data.thoughts)
                  THEN GoesOn(i, [call EXCEPT !.index = @ + 1])
                  ELSE Returns(i, [op |-> "importSequence", params |-> call.input,
                                   error |-> OK, sequenceId |-> call.sequenceId])
    /\ UNCHANGED <<thoughtHistory, branches, currentSequenceId, sequences, submissions>>
    /\ UNCHANGED <<impl, limits, budget, clock, managerVars, indexVars, calls, before>>

\* generateId (line 706) has yielded the id of a stored thought: the INSERT
\* of insertThought breaks the PRIMARY KEY of table thoughts (line 514), the
\* callback of lines 739-742 rejects and the catch of lines 1970-1984
\* returns; the sequence row and the thoughts before this one stay stored
insertThoughtIdTaken(i) ==
    /\ i \in 1..Len(inflight)
    /\ inflight[i].pc = "insertThought"
    /\ thoughtRows # <<>>
    /\ Returns(i, [op |-> "importSequence", params |-> inflight[i].input,
                   error |-> ConstraintError])
    /\ UNCHANGED <<serverVars, submissions>>
    /\ UNCHANGED <<impl, limits, budget, clock, managerVars, indexVars, calls, before>>

\* the statement a suspended importSequence directive awaits fails (disk
\* full, I/O error): the INSERT of the sequence rejects at lines 696-699 or
\* the INSERT of a thought at lines 739-742, and the catch of lines 1970-1984
\* returns; the statements before it have been applied
importSequenceWriteFails(i) ==
    /\ i \in 1..Len(inflight)
    /\ inflight[i].pc \in {"importSequence", "insertThought"}
    /\ Returns(i, [op |-> "importSequence", params |-> inflight[i].input,
                   error |-> WriteError])
    /\ UNCHANGED <<serverVars, submissions>>
    /\ UNCHANGED <<impl, limits, budget, clock, managerVars, indexVars, calls, before>>

UpperCase ==
    <<"A", "B", "C", "D", "E", "F", "G", "H", "I", "J", "K", "L", "M",
      "N", "O", "P", "Q", "R", "S", "T", "U", "V", "W", "X", "Y", "Z">>

LowerCase ==
    <<"a", "b", "c", "d", "e", "f", "g", "h", "i", "j", "k", "l", "m",
      "n", "o", "p", "q", "r", "s", "t", "u", "v", "w", "x", "y", "z">>

\* String.prototype.toLowerCase on one character
LowerOf(char) ==
    IF \E k \in 1..26 : UpperCase[k] = char
    THEN LowerCase[CHOOSE k \in 1..26 : UpperCase[k] = char]
    ELSE char

\* String.prototype.toLowerCase
toLowerCase(text) == [i \in 1..Len(text) |-> LowerOf(text[i])]

\* normalizeDiacritics (lines 457-491): lower-casing, then the replacements of
\* romanianMap and cyrillicMap, none of whose keys is a character of the model
normalizeDiacritics(text) == toLowerCase(text)

\* String.prototype.includes
includes(target, query) ==
    \E i \in 0..(Len(target) - Len(query)) : SubSeq(target, i + 1, i + Len(query)) = query

\* String.prototype.startsWith
startsWith(word, query) ==
    Len(query) <= Len(word) /\ SubSeq(word, 1, Len(query)) = query

RECURSIVE split(_)
\* text.split(/\s+/): the words between the runs of blanks, an empty word
\* before a leading run and after a trailing one
split(text) ==
    IF text = <<>> THEN << <<>> >>
    ELSE LET n == Len(text)
             words == split(SubSeq(text, 1, n - 1))
         IN IF text[n] = Blank
            THEN IF n >= 2 /\ text[n - 1] = Blank THEN words ELSE Append(words, <<>>)
            ELSE [words EXCEPT ![Len(words)] = Append(@, text[n])]

\* Math.max
MathMax(a, b) == IF a >= b THEN a ELSE b

RECURSIVE LcsCells(_, _, _, _, _)
\* the inner loop of longestCommonSubsequence (lines 846-852): dp[i], filled
\* from column 1 on; row and above hold dp[i] and dp[i - 1] from column 0
LcsCells(a, b, above, i, row) ==
    LET j == Len(row)
    IN IF j > Len(b) THEN row
       ELSE LcsCells(a, b, above, i,
                     Append(row, IF a[i] = b[j] THEN above[j] + 1
                                 ELSE MathMax(above[j + 1], row[j])))

RECURSIVE LcsTable(_, _, _)
\* dp[i] of longestCommonSubsequence (lines 843-853), from column 0
LcsTable(a, b, i) ==
    IF i = 0 THEN [j \in 1..(Len(b) + 1) |-> 0]
    ELSE LcsCells(a, b, LcsTable(a, b, i - 1), i, <<0>>)

\* longestCommonSubsequence (lines 840-856): dp[m][n]
longestCommonSubsequence(a, b) == LcsTable(a, b, Len(a))[Len(b) + 1]

\* Math.round of the non-negative quotient num / den
MathRound(num, den) == (2 * num + den) \div (2 * den)

\* a similarity tier that counts the longest common prefix
SimilarityScoreOfPrefix(normalizedQuery, normalizedTarget) ==
    LET Common(k) == SubSeq(normalizedQuery, 1, k) = SubSeq(normalizedTarget, 1, k)
        longest == CHOOSE k \in 0..Len(normalizedQuery) :
                      /\ k <= Len(normalizedTarget) /\ Common(k)
                      /\ \A l \in (k + 1)..Len(normalizedQuery) :
                            l > Len(normalizedTarget) \/ ~Common(l)
    IN MathRound(longest * 2 * 40, Len(normalizedQuery) + Len(normalizedTarget))

\* the similarity tier of calculateFuzzyScore (lines 833-837)
SimilarityScore(normalizedQuery, normalizedTarget) ==
    MathRound(longestCommonSubsequence(normalizedQuery, normalizedTarget) * 2 * 40,
              Len(normalizedQuery) + Len(normalizedTarget))

\* calculateFuzzyScore (lines 811-838)
calculateFuzzyScore(query, target) ==
    LET normalizedQuery == normalizeDiacritics(query)
        normalizedTarget == normalizeDiacritics(target)
        words == split(normalizedTarget)
    IN IF normalizedTarget = normalizedQuery THEN 100
       ELSE IF includes(normalizedTarget, normalizedQuery) THEN 80
       ELSE IF \E w \in 1..Len(words) : startsWith(words[w], normalizedQuery) THEN 60
       ELSE SimilarityScore(normalizedQuery, normalizedTarget)

\* the strings over the characters of the model, up to MaxLen characters long
Texts == UNION {[1..n -> {Letter, Second, Upper, Blank}] : n \in 0..MaxLen}

\* one call of calculateFuzzyScore with the arguments drawn at the start
applyCalculateFuzzyScore ==
    /\ impl = "calculateFuzzyScore"
    /\ calls < budget
    /\ last' = [op |-> "calculateFuzzyScore", query |-> before.query, target |-> before.target,
                score |-> calculateFuzzyScore(before.query, before.target), error |-> OK]
    /\ calls' = calls + 1
    /\ UNCHANGED <<impl, limits, budget, clock, inflight, managerVars, serverVars, submissions,
                   indexVars, before>>

RECURSIVE OrderByLastModified(_)
\* the sequences ids in the order of ORDER BY lastModified DESC over a scan
\* of table sequences: rows of one lastModified stay in the order of the table
OrderByLastModified(ids) ==
    IF ids = {} THEN <<>>
    ELSE LET newest == CHOOSE i \in ids : \A j \in ids :
                          \/ sequences[j].lastModified < sequences[i].lastModified
                          \/ sequences[j].lastModified = sequences[i].lastModified /\ i <= j
         IN <<newest>> \o OrderByLastModified(ids \ {newest})

\* a score that looks at the title only
SequenceScoreOfTitle(query, id) == calculateFuzzyScore(query, sequences[id].title)

\* the score searchSequences gives a sequence (lines 938-941)
SequenceScore(query, id) ==
    LET titleScore == calculateFuzzyScore(query, sequences[id].title)
        descriptionScore == IF sequences[id].description \notin {NoDescription, <<>>}
                            THEN calculateFuzzyScore(query, sequences[id].description)
                            ELSE 0
    IN MathMax(titleScore, descriptionScore)

RECURSIVE OrderByScore(_, _)
\* the sort of lines 950-956: by score descending, then lastModified descending
OrderByScore(query, ids) ==
    IF ids = {} THEN <<>>
    ELSE LET Precedes(i, j) ==
                \/ SequenceScore(query, i) > SequenceScore(query, j)
                \/ /\ SequenceScore(query, i) = SequenceScore(query, j)
                   /\ \/ sequences[i].lastModified > sequences[j].lastModified
                      \/ sequences[i].lastModified = sequences[j].lastModified /\ i <= j
             first == CHOOSE i \in ids : \A j \in ids : Precedes(i, j)
         IN <<first>> \o OrderByScore(query, ids \ {first})

\* the tokens the FTS5 index holds of a text: its lower-cased words
Tokens(text) == {word \in {split(toLowerCase(text))[w] : w \in 1..Len(split(toLowerCase(text)))} :
                    word # <<>>}

\* thoughts_fts MATCH query for a query of bare words: each is a token of the thought
FtsMatch(query, thought) == Tokens(query) \subseteq Tokens(thought)

\* the row of table thoughts that brings a sequence into the join of lines
\* 893-896: the first stored row of the sequence that matches the query
FirstMatch(query, id) ==
    CHOOSE r \in 1..Len(thoughtRows) :
       /\ thoughtRows[r].sequenceId = id
       /\ FtsMatch(query, thoughtRows[r].thought)
       /\ \A q \in 1..(r - 1) : ~(/\ thoughtRows[q].sequenceId = id
                                   /\ FtsMatch(query, thoughtRows[q].thought))

RECURSIVE OrderMatchedByLastModified(_, _)
\* the sequences the SELECT DISTINCT of lines 893-898 found, in the order of
\* ORDER BY s.lastModified DESC; the index yields the matching thoughts in
\* the order of their rows and sequences of one lastModified keep that order
OrderMatchedByLastModified(query, ids) ==
    IF ids = {} THEN <<>>
    ELSE LET newest == CHOOSE i \in ids : \A j \in ids :
                          \/ sequences[j].lastModified < sequences[i].lastModified
                          \/ /\ sequences[j].lastModified = sequences[i].lastModified
                             /\ FirstMatch(query, i) <= FirstMatch(query, j)
         IN <<newest>> \o OrderMatchedByLastModified(query, ids \ {newest})

\* Array.prototype.slice(0, limit) and SQL LIMIT
Limit(seq, limit) == SubSeq(seq, 1, IF limit < Len(seq) THEN limit ELSE Len(seq))

\* searchSequences (lines 858-966): the ids of the sequences found, in order
searchSequences(query, limit, contentSearch) ==
    IF query = NoQuery \/ TrimRight(TrimLeft(query)) = <<>>
    THEN Limit(OrderByLastModified(DOMAIN sequences), limit)
    ELSE IF contentSearch
    THEN Limit(OrderMatchedByLastModified(query,
                  {id \in DOMAIN sequences :
                      \E r \in 1..Len(thoughtRows) :
                         /\ thoughtRows[r].sequenceId = id
                         /\ FtsMatch(query, thoughtRows[r].thought)}), limit)
    ELSE Limit(OrderByScore(query, {id \in DOMAIN sequences : SequenceScore(query, id) > 20}),
               limit)

\* processThought invoked for a searchSequence directive: up to the await of
\* searchSequences (line 1767); to the end when validation rejects the input
searchSequence(input) ==
    /\ impl = "server"
    /\ calls < budget
    /\ input.directive = "searchSequence"
    /\ LET error == validateSequenceThoughtData(input) IN
          IF error # OK
          THEN /\ ReturnsAtOnce(ErrorResponse("searchSequence", input, error))
               /\ UNCHANGED inflight
          ELSE /\ Invoked(input, <<>>)
               /\ inflight' = Append(inflight, Suspended(input, "searchSequences", 0, 0))
    /\ calls' = calls + 1
    /\ UNCHANGED <<serverVars, submissions>>
    /\ UNCHANGED <<impl, limits, budget, clock, managerVars, indexVars>>

\* the SELECT of searchSequences has ended: its callback scores and orders
\* the rows and the call returns the response of lines 1773-1794
searchSequencesDone(i) ==
    /\ i \in 1..Len(inflight)
    /\ inflight[i].pc = "searchSequences"
    /\ LET search == inflight[i].input.searchSequence
           results == searchSequences(search.query,
                                      IF search.limit # 0 THEN search.limit ELSE 10,
                                      search.contentSearch)
       IN Returns(i, [op |-> "searchSequence", params |-> inflight[i].input, error |-> OK,
                      results |-> results, totalCount |-> Len(results)])
    /\ UNCHANGED <<serverVars, submissions>>
    /\ UNCHANGED <<impl, limits, budget, clock, managerVars, indexVars, calls, before>>

\* an exportSequence directive that goes on to line 1906 with its own thought
exportSequenceFallingThrough(input) ==
    /\ impl = "server"
    /\ calls < budget
    /\ input.directive = "exportSequence"
    /\ validateSequenceThoughtData(input) = OK
    /\ thoughtHistory' = PushThought(thoughtHistory, ValidatedInput(input))
    /\ Invoked(input, <<>>)
    /\ inflight' = Append(inflight,
                          Suspended(input, "exportSequence", input.exportSequence, 0))
    /\ calls' = calls + 1
    /\ UNCHANGED <<branches, currentSequenceId, sequences, thoughtRows, submissions>>
    /\ UNCHANGED <<impl, limits, budget, clock, managerVars, indexVars>>

\* processThought invoked for an exportSequence directive: up to the await of
\* loadSequence in exportSequence (line 674, from line 1799); to the end when
\* validation rejects the input
exportSequence(input) ==
    /\ impl = "server"
    /\ calls < budget
    /\ input.directive = "exportSequence"
    /\ LET error == validateSequenceThoughtData(input) IN
          IF error # OK
          THEN /\ ReturnsAtOnce(ErrorResponse("exportSequence", input, error))
               /\ UNCHANGED inflight
          ELSE /\ Invoked(input, <<>>)
               /\ inflight' = Append(inflight,
                                     Suspended(input, "exportSequence", input.exportSequence, 0))
    /\ calls' = calls + 1
    /\ UNCHANGED <<serverVars, submissions>>
    /\ UNCHANGED <<impl, limits, budget, clock, managerVars, indexVars>>

\* the SELECT of loadSequence has ended: exportSequence throws when no
\* sequence has the id (lines 675-677) and awaits loadSequenceThoughts
\* (line 678) otherwise
exportSequenceDone(i) ==
    /\ i \in 1..Len(inflight)
    /\ inflight[i].pc = "exportSequence"
    /\ LET call == inflight[i] IN
          IF call.sequenceId \in DOMAIN sequences
          THEN GoesOn(i, [call EXCEPT !.pc = "exportSequence.loadSequenceThoughts",
                                      !.found = <<[id |-> call.sequenceId]
                                                    @@ sequences[call.sequenceId]>>])
          ELSE Returns(i, ErrorResponse("exportSequence", call.input,
                                        "Sequence with id not found"))
    /\ UNCHANGED <<serverVars, submissions>>
    /\ UNCHANGED <<impl, limits, budget, clock, managerVars, indexVars, calls, before>>

\* the SELECT of loadSequenceThoughts has ended: exportSequence returns the
\* bundle (line 679) and the call the response of lines 1800-1805
exportSequenceThoughtsDone(i) ==
    /\ i \in 1..Len(inflight)
    /\ inflight[i].pc = "exportSequence.loadSequenceThoughts"
    /\ Returns(i, [op |-> "exportSequence", params |-> inflight[i].input, error |-> OK,
                   exported |-> [sequence |-> inflight[i].found[1],
                                 thoughts |-> loadSequenceThoughts(inflight[i].sequenceId)]])
    /\ UNCHANGED <<serverVars, submissions>>
    /\ UNCHANGED <<impl, limits, budget, clock, managerVars, indexVars, calls, before>>

----------------------------------------------------------------------------
(* SequentialThinkingServer of index.ts (ThoughtEntry tool handler) *)

\* a tool call with every optional field absent; an absent or empty branchId is Undef
PlainCall(n, content) == [PlainParams(n) EXCEPT !.thought = content]

\* the tool calls offered to the handler
ToolCalls ==
    {PlainCall(n, c) : n \in Nums, c \in {"a", "b"}}
    \cup {[PlainCall(n, "b") EXCEPT !.isRevision = TRUE, !.revisesThought = r] :
             n \in Nums, r \in 0..MaxNum}
    \cup {[PlainCall(n, "a") EXCEPT !.branchFromThought = k, !.branchId = "b1"] :
             n \in Nums, k \in Nums}
    \cup {[PlainCall(MaxNum, "a") EXCEPT !.branchFromThought = k, !.branchId = b] :
             k \in Nums, b \in {" ", "main"}}
    \cup {[PlainCall(n, "a") EXCEPT !.branchId = "b1"] : n \in Nums}
    \cup {[PlainCall(r, "b") EXCEPT !.isRevision = TRUE, !.revisesThought = r, !.branchId = "b1"] :
             r \in Nums}
    \cup {[PlainCall(n, "a") EXCEPT !.thoughtType = "hypothesis"] : n \in Nums}
    \cup {PlainCall(1, "")}

\* validateThoughtData of index.ts (lines 148-188) on a call that passed the zod schema
validateToolCall(data) ==
    IF data.thought = "" THEN "Invalid thought: must be a non-empty string" ELSE OK

\* branchId.trim() !== ""
TrimmedNonEmpty(branchId) == branchId # " "

\* sessionId (line 289)
SessionOf(data) ==
    IF data.branchId # Undef /\ TrimmedNonEmpty(data.branchId) THEN data.branchId ELSE "main"

\* this.branches[id] || []
BranchOrEmpty(bs, id) == IF id \in DOMAIN bs THEN bs[id] ELSE <<>>

\* the copies a new branch starts with (lines 294-297)
BranchSeed(history, bs, sessionId, branchFromThought) ==
    LET mainHistory == IF sessionId = "main" THEN history ELSE BranchOrEmpty(bs, "main")
        UpTo(entry) == entry.number <= branchFromThought
    IN SelectSeq(mainHistory, UpTo)

\* this.branches after the branch initialisation of lines 292-299
InitBranch(history, bs, data) ==
    IF /\ data.branchFromThought # 0 /\ data.branchId # Undef
       /\ data.branchId \notin DOMAIN bs
    THEN MapSet(bs, data.branchId,
                BranchSeed(history, bs, SessionOf(data), data.branchFromThought))
    ELSE bs

\* thoughtEntry (lines 305-313)
ThoughtEntryOf(data) ==
    [number |-> data.thoughtNumber,
     content |-> data.thought,
     isRevision |-> data.isRevision,
     revisesThought |-> data.revisesThought,
     thoughtType |-> data.thoughtType,
     relatedTo |-> data.relatedTo,
     verificationResult |-> data.verificationResult]

\* Object.assign(existing, thoughtEntry) (line 319): the optional keys are own
\* properties of thoughtEntry only when set
AssignEntry(existing, thoughtEntry) ==
    [number |-> thoughtEntry.number,
     content |-> thoughtEntry.content,
     isRevision |-> thoughtEntry.isRevision,
     revisesThought |-> thoughtEntry.revisesThought,
     thoughtType |-> IF thoughtEntry.thoughtType # Undef
                     THEN thoughtEntry.thoughtType ELSE existing.thoughtType,
     relatedTo |-> IF thoughtEntry.relatedTo # <<>>
                   THEN thoughtEntry.relatedTo ELSE existing.relatedTo,
     verificationResult |-> IF thoughtEntry.verificationResult # Undef
                            THEN thoughtEntry.verificationResult
                            ELSE existing.verificationResult]

\* the entry pushed when the revised number is not in the line (line 322)
MissingRevision(line, thoughtEntry, revisesThought) ==
    Append(line, [thoughtEntry EXCEPT !.number = revisesThought])

\* the line after the revision-or-append step (lines 316-327)
ReviseOrAppend(line, data) ==
    LET thoughtEntry == ThoughtEntryOf(data) IN
    IF data.isRevision /\ data.revisesThought # 0
    THEN IF \E i \in 1..Len(line) : line[i].number = data.revisesThought
         THEN LET first == CHOOSE i \in 1..Len(line) :
                              /\ line[i].number = data.revisesThought
                              /\ \A j \in 1..(i - 1) : line[j].number # data.revisesThought
              IN [line EXCEPT ![first] = AssignEntry(@, thoughtEntry)]
         ELSE MissingRevision(line, thoughtEntry, data.revisesThought)
    ELSE Append(line, thoughtEntry)

IndexState == [thoughtHistory |-> entryHistory, branches |-> entryBranches]

\* the sequential_thinking tool handler (lines 267-373)
sequentialThinking(params) ==
    /\ impl = "index"
    /\ calls < budget
    /\ LET error == validateToolCall(params)
           sessionId == SessionOf(params)
           seeded == InitBranch(entryHistory, entryBranches, params)
       IN IF error # OK
          THEN UNCHANGED indexVars
          ELSE IF sessionId = "main"
          THEN /\ entryHistory' = ReviseOrAppend(entryHistory, params)
               /\ entryBranches' = seeded
          ELSE /\ entryBranches' =
                     MapSet(seeded, sessionId,
                            ReviseOrAppend(BranchOrEmpty(seeded, sessionId), params))
               /\ UNCHANGED entryHistory
    /\ last' = [op |-> "sequential_thinking", params |-> params,
                error |-> validateToolCall(params)]
    /\ before' = IndexState
    /\ calls' = calls + 1
    /\ UNCHANGED <<impl, limits, budget, clock, inflight, managerVars, serverVars, submissions>>

----------------------------------------------------------------------------
(* The sequential_thinking tool handlers over SequentialThinkingManager:     *)
(* handleSequentialThinking of session-manager.ts (lines 428-557) and of      *)
(* server.ts (lines 124-207).  A result is the object the handler returns;    *)
(* its content is the text of its single content item, kept as the values     *)
(* the text is built from.  A field the object does not carry is left out.    *)

\* uuidv4(): an id no session has
uuidv4 == CHOOSE id \in SessionIds : id \notin DOMAIN sessions

\* the session the handler works on: the default one, created when it is
\* missing (session-manager.ts lines 439-443, server.ts lines 130-134)
DefaultSession ==
    IF defaultSessionId = Undef \/ defaultSessionId \notin DOMAIN sessions
    THEN uuidv4
    ELSE defaultSessionId

\* this.sessions once the handler has got or created its session
SessionsWithDefault ==
    IF DefaultSession \in DOMAIN sessions THEN sessions
    ELSE MapSet(sessions, DefaultSession, NewSession)

\* the branch ids of the session's thoughts (session-manager.ts line 454)
SessionBranches(session) ==
    {session.thoughts[i].branchId :
        i \in {j \in 1..Len(session.thoughts) : session.thoughts[j].branchId # Undef}}

\* the result of an accepted submission (session-manager.ts lines 457-537)
SessionResult(session, params) ==
    IF ~params.nextThoughtNeeded
    THEN [content |-> [text |-> "Sequential thinking process complete",
                       thoughtNumber |-> params.thoughtNumber,
                       totalThoughts |-> params.totalThoughts,
                       nextThoughtNeeded |-> params.nextThoughtNeeded,
                       branches |-> getSessionSummary(session).branches,
                       thoughtHistoryLength |-> getSessionSummary(session).totalThoughts,
                       sessionComplete |-> TRUE]]
    ELSE [content |-> [text |-> "Thought recorded",
                       thoughtNumber |-> params.thoughtNumber,
                       totalThoughts |-> params.totalThoughts,
                       nextThoughtNeeded |-> params.nextThoughtNeeded,
                       branches |-> SessionBranches(session),
                       thoughtHistoryLength |-> Len(session.thoughts),
                       sessionComplete |-> FALSE]]

\* the result the catch of session-manager.ts builds (lines 539-556)
SessionErrorResult(params, message) ==
    [content |-> [error |-> message, status |-> "failed",
                  thoughtNumber |-> params.thoughtNumber,
                  sessionId |-> DefaultSession],
     isError |-> TRUE]

\* handleSequentialThinking of session-manager.ts (lines 428-557)
handleSequentialThinking(params) ==
    /\ impl = "session-manager.ts"
    /\ calls < budget
    /\ LET adjusted == [params EXCEPT !.totalThoughts = adjustTotalThoughts(params)]
           sessionId == DefaultSession
           opened == SessionsWithDefault
           error == validateThoughtSequence(opened[sessionId], adjusted)
           added == [opened EXCEPT ![sessionId] = SessionWith(@, sessionId, adjusted)]
       IN /\ defaultSessionId' = sessionId
          /\ sessions' = IF error = OK THEN added ELSE opened
          /\ last' = [op |-> "handleSequentialThinking", params |-> params, error |-> error,
                      result |-> IF error = OK
                                 THEN SessionResult(added[sessionId], adjusted)
                                 ELSE SessionErrorResult(adjusted, error)]
    /\ before' = sessions
    /\ calls' = calls + 1
    /\ UNCHANGED <<impl, limits, budget, clock, inflight, serverVars, submissions, indexVars>>

\* the result of an accepted submission (server.ts lines 139-193)
ServerResult(session, params) ==
    IF ~params.nextThoughtNeeded
    THEN [content |-> [text |-> "Sequential thinking process complete",
                       totalThoughts |-> getSessionSummary(session).totalThoughts]]
    ELSE [content |-> [text |-> "Thought recorded",
                       thoughtNumber |-> params.thoughtNumber]]

\* the result the catch of server.ts builds (lines 194-205)
ServerErrorResult(message) == [content |-> [text |-> "Error", message |-> message]]

\* handleSequentialThinking of server.ts (lines 124-207)
serverHandleSequentialThinking(params) ==
    /\ impl = "server.ts"
    /\ calls < budget
    /\ LET sessionId == DefaultSession
           opened == SessionsWithDefault
           error == validateThoughtSequence(opened[sessionId], params)
           added == [opened EXCEPT ![sessionId] = SessionWith(@, sessionId, params)]
       IN /\ defaultSessionId' = sessionId
          /\ sessions' = IF error = OK THEN added ELSE opened
          /\ last' = [op |-> "handleSequentialThinking", params |-> params, error |-> error,
                      result |-> IF error = OK
                                 THEN ServerResult(added[sessionId], params)
                                 ELSE ServerErrorResult(error)]
    /\ before' = sessions
    /\ calls' = calls + 1
    /\ UNCHANGED <<impl, limits, budget, clock, inflight, serverVars, submissions, indexVars>>

----------------------------------------------------------------------------
(* Specifications *)

\* the limits of an instance started with MAX_THOUGHT_HISTORY=2, MAX_BRANCHES=2
\* and MAX_THOUGHTS_PER_BRANCH=2
SmallLimits == [maxThoughtHistory |-> 2, maxBranches |-> 2, maxThoughtsPerBranch |-> 2]

\* the limits parseInt can yield from the environment: the constructor
\* (lines 432-438) stores them unchecked
ConfigurableLimits ==
    [maxThoughtHistory : 0..MaxLimit, maxBranches : 0..MaxLimit,
     maxThoughtsPerBranch : 0..MaxLimit]

\* the limits of an instance started with MAX_THOUGHT_HISTORY=1
TightLimits == [maxThoughtHistory |-> 1, maxBranches |-> 2, maxThoughtsPerBranch |-> 2]

\* calls in a behaviour that saves, submits past the history limit, exports
\* and imports
LongRun == MaxCalls + 3

\* the state after construction with the limits l, before a behaviour of n calls
ConstructedFor(l, n) ==
    /\ limits = l
    /\ submissions = <<>>
    /\ sessions = <<>>
    /\ defaultSessionId = Undef
    /\ thoughtHistory = <<>>
    /\ branches = <<>>
    /\ currentSequenceId = 0
    /\ sequences = <<>>
    /\ thoughtRows = <<>>
    /\ entryHistory = <<>>
    /\ entryBranches = <<>>
    /\ inflight = <<>>
    /\ budget = n
    /\ clock = 0
    /\ calls = 0
    /\ last = [op |-> "init", error |-> OK]
    /\ before = <<>>

\* the state after construction with the limits l
Constructed(l) == ConstructedFor(l, MaxCalls)

Init == impl \in {"manager", "server", "index"} /\ Constructed(SmallLimits)

\* a server constructed under any configuration of the limits
InitLimits == impl = "server" /\ \E l \in ConfigurableLimits : Constructed(l)

InitManager == Init /\ impl = "manager"

InitServer == Init /\ impl = "server"

InitIndex == Init /\ impl = "index"

\* the session-manager.ts tool server or the SQLite-backed server
InitTotals == impl \in {"session-manager.ts", "server"} /\ Constructed(SmallLimits)

\* a server about to score the target against the query
ScoringOf(query, target) ==
    /\ limits = SmallLimits
    /\ submissions = <<>>
    /\ sessions = <<>>
    /\ defaultSessionId = Undef
    /\ thoughtHistory = <<>>
    /\ branches = <<>>
    /\ currentSequenceId = 0
    /\ sequences = <<>>
    /\ thoughtRows = <<>>
    /\ entryHistory = <<>>
    /\ entryBranches = <<>>
    /\ inflight = <<>>
    /\ budget = 1
    /\ clock = 0
    /\ calls = 0
    /\ last = [op |-> "init", error |-> OK]
    /\ before = [query |-> query, target |-> target]

\* calculateFuzzyScore on every pair of strings
InitFuzzy ==
    impl = "calculateFuzzyScore" /\ \E query \in Texts, target \in Texts : ScoringOf(query, target)

\* a server for three saves and a search
InitSearch == impl = "server" /\ ConstructedFor(SmallLimits, MaxCalls + 1)

\* the manager or the SQLite-backed server, for two submissions and two projections
InitProjection ==
    impl \in {"manager", "server"} /\ ConstructedFor(SmallLimits, MaxCalls + 1)

\* the tool server of server.ts
InitHandler == impl = "server.ts" /\ Constructed(SmallLimits)

\* a server with a history limit of one thought
InitRoundTrip == impl = "server" /\ ConstructedFor(TightLimits, LongRun)

\* a server with a history limit of one thought, for four calls
InitResume == impl = "server" /\ ConstructedFor(TightLimits, MaxCalls + 1)

SubmitSequence ==
    \E sessionId \in SessionIds, params \in SequenceParams : addThought(sessionId, params)

SubmitHypothesis ==
    \E sessionId \in SessionIds, params \in HypothesisParams : addThought(sessionId, params)

SubmitVerification ==
    \E sessionId \in SessionIds, params \in VerificationParams : addThought(sessionId, params)

\* a row of table sequences, or a statement that is under way, holds the
\* millisecond the clock stands at
Stamped ==
    \/ \E id \in DOMAIN sequences : sequences[id].lastModified = clock
    \/ \E i \in 1..Len(inflight) :
          /\ inflight[i].pc \in {"createSequence", "importSequence", "updateSequenceModified",
                                 "saveSequence.updateSequenceModified"}
          /\ inflight[i].now = clock

\* the clock reaches the next millisecond, between any two steps of the
\* server; every new Date() until the next Tick reads this value. The code
\* compares the values it has stored and nothing else, so a millisecond no
\* value holds is not told from the one before it: the clock of the model
\* goes on from the milliseconds that are Stamped, and every call can read a
\* later millisecond than the calls before it
Tick ==
    /\ impl = "server"
    /\ Stamped
    /\ clock' = clock + 1
    /\ UNCHANGED <<serverVars, submissions, inflight, last>>
    /\ UNCHANGED <<impl, limits, budget, managerVars, indexVars, calls, before>>

\* thoughts of distinct numbers
OverlapInputs == {PlainData(n) : n \in Nums}

\* the suspended calls are thought submissions and loadSequence directives
ThoughtsSuspended ==
    \A i \in 1..Len(inflight) : inflight[i].input.directive \in {"none", "loadSequence"}

\* the calls invoked while another call is suspended are plain thoughts
Overlaps(input) ==
    /\ ThoughtsSuspended
    /\ inflight # <<>> => input \in OverlapInputs

\* the thought submissions that overlap with each other are plain thoughts
OverlapsPlain(input) ==
    inflight # <<>> =>
       /\ input \in OverlapInputs
       /\ \A i \in 1..Len(inflight) : inflight[i].input \in OverlapInputs

SubmitThought == \E input \in ThoughtInputs : OverlapsPlain(input) /\ processThought(input)

SubmitLimited == \E input \in LimitInputs : Overlaps(input) /\ processThought(input)

\* a saveSequence directive invoked while no call is suspended
SaveSequence == inflight = <<>> /\ \E input \in DirectiveInputs : saveSequence(input)

CallTool == \E params \in ToolCalls : sequentialThinking(params)

\* a statement a suspended thought submission awaits has ended
ThoughtStatementDone ==
    \E i \in 1..Len(inflight) : saveThoughtDone(i) \/ updateSequenceModifiedDone(i)

\* a statement a suspended loadSequence directive awaits has ended
LoadStatementDone ==
    \E i \in 1..Len(inflight) : loadSequenceDone(i) \/ loadSequenceThoughtsDone(i)

\* a statement a suspended saveSequence directive awaits has ended
SaveStatementDone ==
    \E i \in 1..Len(inflight) :
       createSequenceDone(i) \/ saveSequenceThoughtDone(i) \/ saveSequenceModifiedDone(i)

\* a statement a suspended importSequence directive awaits has ended
ImportStatementDone ==
    \E i \in 1..Len(inflight) : importSequenceDone(i) \/ insertThoughtDone(i)

\* the statement a suspended searchSequence directive awaits has ended
SearchStatementDone == \E i \in 1..Len(inflight) : searchSequencesDone(i)

\* a statement a suspended exportSequence directive awaits has ended
ExportStatementDone ==
    \E i \in 1..Len(inflight) : exportSequenceDone(i) \/ exportSequenceThoughtsDone(i)

NextManager == createSession \/ SubmitSequence

HandleThought == \E params \in SequenceParams : handleSequentialThinking(params)

ServerHandleThought == \E params \in SequenceParams : serverHandleSequentialThinking(params)

NextTotals ==
    \/ HandleThought \/ SubmitThought \/ SaveSequence \/ ThoughtStatementDone
    \/ SaveStatementDone \/ Tick

NextHandler == ServerHandleThought

SubmitContent == ThoughtsSuspended /\ \E input \in ContentInputs : processThought(input)

NextContent ==
    SubmitContent \/ SaveSequence \/ ThoughtStatementDone \/ SaveStatementDone \/ Tick

Summarize == \E sessionId \in SessionIds : callGetSessionSummary(sessionId)

SubmitProjected == \E input \in ProjectionInputs : processThought(input)

NextProjection ==
    createSession \/ SubmitVerification \/ Summarize \/ SubmitProjected
    \/ callVerificationProjection

CreateEither == createSessionFrom(TwoSessionIds)

\* plain thoughts, open-ended or final, and revisions
CountedParams ==
    {[PlainParams(n) EXCEPT !.nextThoughtNeeded = x] : n \in Nums, x \in BOOLEAN}
    \cup {[PlainParams(n) EXCEPT !.isRevision = TRUE, !.revisesThought = r] :
             n \in Nums, r \in 0..1}

SubmitEither ==
    \E sessionId \in TwoSessionIds, params \in CountedParams : addThought(sessionId, params)

DeleteEither == \E sessionId \in TwoSessionIds : deleteSession(sessionId)

NextSessions == CreateEither \/ SubmitEither \/ DeleteEither

SaveTitled == inflight = <<>> /\ \E input \in TitledSaves : saveSequence(input)

SearchFuzzy == inflight = <<>> /\ \E input \in FuzzySearches : searchSequence(input)

LoadSaved ==
    /\ ThoughtsSuspended
    /\ \E input \in {i \in LoadInputs : i.loadSequence \in SavedIds} : loadSequence(input)

SubmitFirst == ThoughtsSuspended /\ processThought(PlainData(1))

NextSearch ==
    \/ SaveTitled \/ SearchFuzzy \/ LoadSaved \/ SubmitFirst
    \/ ThoughtStatementDone \/ LoadStatementDone \/ SaveStatementDone \/ SearchStatementDone
    \/ Tick

SaveStrategy == inflight = <<>> /\ \E input \in StrategySaves : saveSequence(input)

SearchStrategy == inflight = <<>> /\ \E input \in StrategySearches : searchSequence(input)

NextStrategy ==
    \/ SaveStrategy \/ SearchStrategy \/ SubmitFirst
    \/ ThoughtStatementDone \/ SaveStatementDone \/ SearchStatementDone \/ Tick

NextFuzzy == applyCalculateFuzzyScore

NextHypothesis == createSession \/ SubmitHypothesis

NextVerification == createSession \/ SubmitVerification

NextServer ==
    SubmitThought \/ SaveSequence \/ ThoughtStatementDone \/ SaveStatementDone \/ Tick

LoadSequence == ThoughtsSuspended /\ \E input \in LoadInputs : loadSequence(input)

\* the directives invoked while another call is suspended: a listing of the
\* sequences, an export of sequence 1 and an import of two plain thoughts
OverlapDirectives ==
    {input \in SearchInputs :
        /\ input.thought # <<>>
        /\ input.searchSequence = [query |-> NoQuery, limit |-> 0, contentSearch |-> FALSE]}
    \cup {input \in ExportInputs : input.thought # <<>> /\ input.exportSequence = 1}
    \cup {input \in ImportInputs :
             \A t \in 1..Len(input.importSequence.data.thoughts) :
                /\ input.importSequence.data.thoughts[t].branchFromThought = 0
                /\ input.importSequence.data.thoughts[t].thoughtType = Undef}

\* a directive invoked while thought submissions or loadSequence directives
\* are suspended is one of OverlapDirectives
OverlapsDirective(input) ==
    /\ ThoughtsSuspended
    /\ inflight # <<>> => input \in OverlapDirectives

ImportSequence ==
    \E input \in ImportInputs : OverlapsDirective(input) /\ importSequence(input)

WriteFails == \E i \in 1..Len(inflight) : processThoughtWriteFails(i)

SaveFails == \E i \in 1..Len(inflight) : saveSequenceWriteFails(i)

ImportIdTaken ==
    \E i \in 1..Len(inflight) : importSequenceIdTaken(i) \/ insertThoughtIdTaken(i)

ImportFails == \E i \in 1..Len(inflight) : importSequenceWriteFails(i)

SearchSequence ==
    \E input \in SearchInputs : OverlapsDirective(input) /\ searchSequence(input)

ExportSequence ==
    \E input \in ExportInputs : OverlapsDirective(input) /\ exportSequence(input)

NextStore ==
    \/ SubmitLimited \/ SaveSequence \/ LoadSequence \/ ImportSequence \/ WriteFails
    \/ SearchSequence \/ ExportSequence \/ ImportIdTaken \/ SaveFails \/ ImportFails
    \/ ThoughtStatementDone \/ LoadStatementDone \/ SaveStatementDone
    \/ ImportStatementDone \/ SearchStatementDone \/ ExportStatementDone \/ Tick

\* the caller hands the bundle the last export returned to importSequence
ImportExported ==
    /\ inflight = <<>>
    /\ last.op = "exportSequence"
    /\ last.error = OK
    /\ importSequence([PlainData(1) EXCEPT !.directive = "importSequence"]
                         @@ [importSequence |-> [data |-> last.exported]])

\* thoughts 1..MaxNum of the main line and a thought of branch b1
RoundTripInputs ==
    {PlainData(n) : n \in Nums}
    \cup {[PlainData(1) EXCEPT !.branchFromThought = 1, !.branchId = "b1"]}

\* a thought submission invoked while no call is suspended
SubmitAlone == inflight = <<>> /\ \E input \in RoundTripInputs : processThought(input)

NextRoundTrip ==
    \/ SubmitAlone \/ SaveSequence \/ ExportSequence \/ ImportExported
    \/ ThoughtStatementDone \/ SaveStatementDone \/ ExportStatementDone
    \/ ImportStatementDone \/ Tick

NextResume ==
    \/ SubmitLimited \/ SaveSequence \/ LoadSequence
    \/ ThoughtStatementDone \/ LoadStatementDone \/ SaveStatementDone \/ Tick

SubmitOverlapped == \E input \in OverlapInputs : processThought(input)

LoadOverlapped == \E input \in LoadInputs : loadSequence(input)

\* one saveSequence directive at a time, with any other call
SaveOverlapped ==
    /\ \A i \in 1..Len(inflight) : inflight[i].input.directive # "saveSequence"
    /\ \E input \in DirectiveInputs : saveSequence(input)

NextOverlap ==
    \/ SubmitOverlapped \/ LoadOverlapped \/ SaveOverlapped
    \/ ThoughtStatementDone \/ LoadStatementDone \/ SaveStatementDone \/ Tick

NextLimits ==
    \/ SubmitLimited \/ SaveSequence \/ WriteFails \/ ThoughtStatementDone \/ SaveStatementDone
    \/ Tick

NextIndex == CallTool

Next == NextManager \/ NextServer \/ NextIndex

\* every engine, one per behaviour
Spec == Init /\ [][Next]_vars

\* SequentialThinkingManager under the sequencing submissions
SpecManager == InitManager /\ [][NextManager]_vars

\* SequentialThinkingManager under the hypothesis / verification submissions
SpecHypothesis == InitManager /\ [][NextHypothesis]_vars

\* the SQLite-backed SequentialThinkingServer
SpecServer == InitServer /\ [][NextServer]_vars

\* the index.ts tool handler
SpecIndex == InitIndex /\ [][NextIndex]_vars

\* SequentialThinkingManager under verifications submitted in any numeric order
SpecVerification == InitManager /\ [][NextVerification]_vars

\* SequentialThinkingServer under every configuration of its limits
SpecLimits == InitLimits /\ [][NextLimits]_vars

\* SequentialThinkingServer exporting sequences and importing the bundles
SpecRoundTrip == InitRoundTrip /\ [][NextRoundTrip]_vars

\* SequentialThinkingServer saving its main line and loading it again
SpecResume == InitResume /\ [][NextResume]_vars

\* SequentialThinkingServer under calls that overlap
SpecOverlap == InitResume /\ [][NextOverlap]_vars

\* SequentialThinkingServer with its durable store: saving, importing and
\* loading sequences, and writes that fail
\* the two servers that adjust totalThoughts, under thought submissions and saves
SpecTotals == InitTotals /\ [][NextTotals]_vars

\* calculateFuzzyScore as a function of its two strings
SpecFuzzy == InitFuzzy /\ [][NextFuzzy]_vars

\* the SQLite-backed server under titled saves and fuzzy searches
SpecSearch == InitSearch /\ [][NextSearch]_vars

\* the SQLite-backed server under saves titled 'Strategy' and 'Strategic Plan'
\* and searches for 'strategy'
SpecStrategy == InitSearch /\ [][NextStrategy]_vars

\* the SQLite-backed server under thoughts of whitespace and control characters
SpecContent == InitServer /\ [][NextContent]_vars

\* the manager and the SQLite-backed server with their verification projections
SpecProjection == InitProjection /\ [][NextProjection]_vars

\* SequentialThinkingManager with two sessions, created and deleted
SpecSessions == InitManager /\ [][NextSessions]_vars

\* the tool handler of server.ts
SpecHandler == InitHandler /\ [][NextHandler]_vars

SpecStore == InitServer /\ [][NextStore]_vars

----------------------------------------------------------------------------
(* Properties of SequentialThinkingManager *)

\* the last operation was addThought on an existing session
AddedThought == last.op = "addThought" /\ last.sessionId \in DOMAIN before

SessionBefore == before[last.sessionId]

SessionAfter == sessions[last.sessionId]

NumbersIn(thoughts) == {thoughts[i].thoughtNumber : i \in 1..Len(thoughts)}

MainNumbersIn(thoughts) ==
    {thoughts[i].thoughtNumber : i \in {k \in 1..Len(thoughts) : ~thoughts[k].isRevision}}

RecordedHypotheses(thoughts) ==
    {thoughts[i].thoughtNumber :
        i \in {k \in 1..Len(thoughts) : thoughts[k].thoughtType = "hypothesis"}}

\* C1: no session holds two stored non-revision thoughts with the same
\* thoughtNumber, and an addThought that is not a revision and repeats the number
\* of a stored non-revision thought throws and stores nothing.
ManagerUniqueNumbers ==
    /\ \A sessionId \in DOMAIN sessions :
          LET thoughts == sessions[sessionId].thoughts IN
          \A i, j \in 1..Len(thoughts) :
             (i < j /\ ~thoughts[i].isRevision /\ ~thoughts[j].isRevision)
                => thoughts[i].thoughtNumber # thoughts[j].thoughtNumber
    /\ (/\ AddedThought
        /\ ~last.params.isRevision
        /\ last.params.thoughtNumber \in MainNumbersIn(SessionBefore.thoughts))
          => /\ last.error = "Thought number already exists"
             /\ sessions = before

DuplicateWasSubmitted ==
    /\ AddedThought
    /\ ~last.params.isRevision
    /\ last.params.thoughtNumber \in MainNumbersIn(SessionBefore.thoughts)
    /\ last.error # OK

\* C3: a revision of n is rejected, leaving the session as it was, whenever the
\* session holds no thought numbered n; once a thought numbered n exists the
\* same call (a revision carrying no branch point and no verification) is
\* accepted and stored.
ManagerRevisionTarget ==
    (AddedThought /\ last.params.isRevision /\ last.params.revisesThought # 0)
       => /\ last.params.revisesThought \notin NumbersIn(SessionBefore.thoughts)
               => /\ last.error = "Cannot revise non-existent thought"
                  /\ sessions = before
          /\ (/\ last.params.revisesThought \in NumbersIn(SessionBefore.thoughts)
              /\ last.params.branchFromThought = 0
              /\ last.params.thoughtType # "verification")
               => /\ last.error = OK
                  /\ SessionAfter.thoughts =
                        Append(SessionBefore.thoughts,
                               ThoughtStateOf(last.sessionId, last.params))

RevisionWasAccepted ==
    /\ AddedThought
    /\ last.params.isRevision
    /\ last.params.revisesThought \in NumbersIn(SessionBefore.thoughts)
    /\ last.params.thoughtNumber # last.params.revisesThought
    /\ last.error = OK

\* C6: an accepted revision leaves session.thoughts.length and
\* getSessionSummary().totalThoughts as they were.
ManagerRevisionKeepsCount ==
    (AddedThought /\ last.params.isRevision /\ last.error = OK)
       => /\ Len(SessionAfter.thoughts) = Len(SessionBefore.thoughts)
          /\ getSessionSummary(SessionAfter).totalThoughts
                = getSessionSummary(SessionBefore).totalThoughts

\* C9: a submission with branchFromThought = k is rejected, leaving the session
\* as it was, whenever the session holds no thought numbered k; so every stored
\* thought with a branchFromThought follows a stored thought of that number.
ManagerBranchPoint ==
    /\ (/\ AddedThought
        /\ last.params.branchFromThought # 0
        /\ last.params.branchFromThought \notin NumbersIn(SessionBefore.thoughts))
          => /\ last.error # OK
             /\ sessions = before
    /\ \A sessionId \in DOMAIN sessions :
          LET thoughts == sessions[sessionId].thoughts IN
          \A i \in 1..Len(thoughts) :
             thoughts[i].branchFromThought # 0
                => \E j \in 1..(i - 1) :
                      thoughts[j].thoughtNumber = thoughts[i].branchFromThought

BranchFromMissingThought ==
    /\ AddedThought
    /\ Len(SessionBefore.thoughts) > 0
    /\ last.params.branchFromThought # 0
    /\ last.params.branchFromThought \notin NumbersIn(SessionBefore.thoughts)
    /\ last.error = "Cannot branch from non-existent thought"

\* C10: a verification whose relatedTo holds a number not accepted before as a
\* hypothesis is rejected, leaving the session as it was; one whose relatedTo
\* entries all name recorded hypotheses passes the check, is accepted when its
\* own number is new, and getSessionSummary then counts every referenced
\* hypothesis under the verification's result.
ManagerVerificationLinkage ==
    (AddedThought /\ last.params.thoughtType = "verification")
       => LET related == {last.params.relatedTo[i] : i \in 1..Len(last.params.relatedTo)}
              recorded == RecordedHypotheses(SessionBefore.thoughts)
              result == IF last.params.verificationResult \in {"confirmed", "refuted", "partial"}
                        THEN last.params.verificationResult
                        ELSE "pending"
          IN /\ ~(related \subseteq recorded)
                  => /\ last.error # OK
                     /\ sessions = before
             /\ related \subseteq recorded
                  => last.error # "Cannot verify non-existent hypothesis"
             /\ (/\ related \subseteq recorded
                 /\ last.params.thoughtNumber \notin MainNumbersIn(SessionBefore.thoughts))
                  => last.error = OK
             /\ last.error = OK
                  => /\ getSessionSummary(SessionAfter).hypotheses[result]
                           >= Cardinality(related)
                     /\ \A n \in related :
                           HypothesisStatus(SessionAfter, MapGet(SessionAfter.hypotheses, n)) = result

VerificationWasCounted ==
    /\ AddedThought
    /\ last.params.thoughtType = "verification"
    /\ Len(last.params.relatedTo) = 1
    /\ last.params.verificationResult = "refuted"
    /\ last.error = OK
    /\ getSessionSummary(SessionBefore).hypotheses.pending = 1
    /\ getSessionSummary(SessionAfter).hypotheses.refuted = 1

\* the referencing verification with the highest thoughtNumber, the later
\* inserted one among equals
HighestVerification(session, hypothesis) ==
    LET verifications == VerificationsOf(session, hypothesis)
        top == CHOOSE i \in 1..Len(verifications) :
                  \A j \in 1..Len(verifications) :
                     \/ verifications[j].thoughtNumber < verifications[i].thoughtNumber
                     \/ /\ verifications[j].thoughtNumber = verifications[i].thoughtNumber
                        /\ j <= i
    IN verifications[top]

\* C11: getSessionSummary counts a hypothesis that verifications reference
\* under the verificationResult of the referencing verification with the
\* highest thoughtNumber (the later inserted one among equals), also when the
\* verifications were submitted out of numeric order.
ManagerHighestVerification ==
    \A sessionId \in DOMAIN sessions :
       LET session == sessions[sessionId] IN
       \A n \in MapKeys(session.hypotheses) :
          Len(VerificationsOf(session, MapGet(session.hypotheses, n))) > 0
             => HypothesisStatus(session, MapGet(session.hypotheses, n))
                   = HighestVerification(session, MapGet(session.hypotheses, n)).verificationResult

----------------------------------------------------------------------------
(* Properties of the SQLite-backed SequentialThinkingServer *)

\* the last operation was a thought submission that overlapped with no other call
SubmittedThought == last.op = "processThought"

\* the response of the call that returned in the last step, overlapped or not
Response ==
    IF last.op = "invoked"
    THEN IF last.returned = <<>> THEN [op |-> "none", error |-> OK] ELSE last.returned[1]
    ELSE last

\* an accepted thought submission has just returned, overlapped or not
ReturnedThought == Response.op = "processThought" /\ Response.error = OK

\* the calls of the last overlap that were thought submissions
OverlappedThoughts == {k \in 1..Len(last.params) : last.params[k].directive = "none"}

\* C2: the main line holds no two non-revision thoughts with the same
\* thoughtNumber, and a submission that repeats the number of a non-revision
\* thought of the main line fails and is not appended.
ServerUniqueNumbers ==
    /\ \A i, j \in 1..Len(thoughtHistory) :
          (i < j /\ ~thoughtHistory[i].isRevision /\ ~thoughtHistory[j].isRevision)
             => thoughtHistory[i].thoughtNumber # thoughtHistory[j].thoughtNumber
    /\ (/\ SubmittedThought
        /\ ~last.params.isRevision
        /\ last.params.thoughtNumber \in MainNumbersIn(before.thoughtHistory))
          => /\ last.error # OK
             /\ thoughtHistory = before.thoughtHistory

\* the positions of the main line holding a hypothesis that no verification of
\* the main line relates to
UnverifiedPositions ==
    {i \in 1..Len(thoughtHistory) :
        /\ thoughtHistory[i].thoughtType = "hypothesis"
        /\ \A j \in 1..Len(thoughtHistory) :
              thoughtHistory[j].thoughtType = "verification"
                 => \A k \in 1..Len(thoughtHistory[j].relatedTo) :
                       thoughtHistory[j].relatedTo[k] # thoughtHistory[i].thoughtNumber}

\* C12: getHypothesesNeedingVerification returns exactly the hypotheses of the
\* main line that no verification of the main line relates to, in main-line
\* order, and the unverifiedHypothesesCount of every acceptance result is their
\* number.
ServerUnverifiedHypotheses ==
    LET result == getHypothesesNeedingVerification(thoughtHistory)
        Position(k) == CHOOSE i \in UnverifiedPositions :
                          Cardinality({j \in UnverifiedPositions : j <= i}) = k
    IN /\ Len(result) = Cardinality(UnverifiedPositions)
       /\ \A k \in 1..Len(result) : result[k] = thoughtHistory[Position(k)]
       /\ ReturnedThought
             => Response.unverifiedHypothesesCount = Cardinality(UnverifiedPositions)

UnverifiedBesideVerified ==
    /\ SubmittedThought
    /\ last.error = OK
    /\ last.params.thoughtType = "verification"
    /\ last.unverifiedHypothesesCount = 1
    /\ Len(thoughtHistory) = 2

AcceptedThought == SubmittedThought /\ last.error = OK

\* C13: with maxThoughtHistory >= 1, after every accepted submission the main
\* line is no longer than maxThoughtHistory; once more thoughts than that have
\* been submitted it is exactly that long; and it holds the most recently
\* submitted thoughts in submission order (the order in which the calls were
\* invoked, when they overlap).
ServerHistoryBound ==
    (impl = "server" /\ maxThoughtHistory >= 1 /\ ReturnedThought)
       => /\ Len(thoughtHistory) <= maxThoughtHistory
          /\ Len(submissions) > maxThoughtHistory => Len(thoughtHistory) = maxThoughtHistory
          /\ Len(thoughtHistory) <= Len(submissions)
          /\ \A i \in 1..Len(thoughtHistory) :
                thoughtHistory[i] = submissions[Len(submissions) - Len(thoughtHistory) + i]

OldestThoughtEvicted ==
    /\ AcceptedThought
    /\ maxThoughtHistory = 2
    /\ Len(submissions) = 3
    /\ submissions[1] # submissions[3]
    /\ Len(thoughtHistory) = 2

\* no thought is between the push of lines 1906-1914 and the cleanup of lines
\* 1923-1924
NoneAwaitsCleanup ==
    \A i \in 1..Len(inflight) : inflight[i].pc \notin {"saveThought", "updateSequenceModified"}

\* a call of processThought has just returned, overlapped or not: a thought
\* submission or a saveSequence directive, with a response or with an error
CallReturned == Response.op \in {"processThought", "saveSequence"}

\* no branch list is longer than maxThoughtsPerBranch
BranchListsWithinLimit ==
    \A i \in 1..Len(branches) : Len(branches[i].thoughts) <= maxThoughtsPerBranch

\* C14: from an empty store, under thought submissions and saveSequence, after
\* every call of processThought the number of branch ids is at most maxBranches
\* and no branch list is longer than maxThoughtsPerBranch; a submission that
\* would open a branch while maxBranches branches exist is rejected with
\* 'Maximum number of branches' and leaves thoughtHistory and branches alone.
ServerBranchBoundsAfterEveryCall ==
    impl = "server"
       => /\ CallReturned => (Len(branches) <= maxBranches /\ BranchListsWithinLimit)
          /\ (/\ SubmittedThought
              /\ validateThoughtData(last.params) = OK
              /\ last.params.branchFromThought # 0
              /\ last.params.branchId # Undef
              /\ ~HasBranch(before.branches, last.params.branchId)
              /\ Len(before.branches) >= maxBranches)
                => /\ last.error = "Maximum number of branches exceeded"
                   /\ thoughtHistory = before.thoughtHistory
                   /\ branches = before.branches

\* the part of the branch bounds that holds: the number of branch ids never exceeds
\* maxBranches; with maxThoughtsPerBranch >= 1 no branch list is longer than
\* maxThoughtsPerBranch when an accepted submission returns; a submission
\* that would open a branch while maxBranches branches exist is rejected and
\* leaves thoughtHistory and branches alone
ServerBranchBounds ==
    impl = "server"
       => /\ Len(branches) <= maxBranches
          /\ (maxThoughtsPerBranch >= 1 /\ ReturnedThought) => BranchListsWithinLimit
          /\ (/\ SubmittedThought
              /\ validateThoughtData(last.params) = OK
              /\ last.params.branchFromThought # 0
              /\ last.params.branchId # Undef
              /\ ~HasBranch(before.branches, last.params.branchId)
              /\ Len(before.branches) >= maxBranches)
                => /\ last.error = "Maximum number of branches exceeded"
                   /\ thoughtHistory = before.thoughtHistory
                   /\ branches = before.branches

\* a write of a branch thought failed under limits of at least 1 and left its
\* branch list over maxThoughtsPerBranch
FailedWriteLeftBranchOverLimit ==
    /\ SubmittedThought
    /\ last.error = WriteError
    /\ maxThoughtsPerBranch >= 1
    /\ maxBranches >= 1
    /\ ~BranchListsWithinLimit

BranchLimitReached ==
    /\ SubmittedThought
    /\ last.error = "Maximum number of branches exceeded"
    /\ maxBranches = 2
    /\ Len(branches) = 2
    /\ Len(thoughtHistory) >= 1

\* C15: a limit of 0 is rejected at construction: no server instance that
\* takes calls has a limit of 0, and so no main line or branch list outgrows
\* its limit after an accepted submission.
ServerRejectsZeroLimit ==
    (impl = "server" /\ AcceptedThought)
       => /\ maxThoughtHistory >= 1
          /\ maxBranches >= 1
          /\ maxThoughtsPerBranch >= 1
          /\ Len(thoughtHistory) <= maxThoughtHistory
          /\ \A i \in 1..Len(branches) :
                Len(branches[i].thoughts) <= maxThoughtsPerBranch

\* this.branches when the last submission reached cleanupOldBranches
BranchesBeforeCleanup ==
    IF last.params.branchFromThought # 0 /\ last.params.branchId # Undef
    THEN BranchPush(before.branches, last.params.branchId, ValidatedInput(last.params))
    ELSE before.branches

\* C16: when cleanupOldBranches deletes branches because there are more than
\* maxBranches, it keeps maxBranches of them, every deleted branch's last
\* thought is numbered no higher than any kept branch's, and the branch the
\* submission has just appended to is not deleted.
ServerBranchEviction ==
    (impl = "server" /\ AcceptedThought /\ Len(BranchesBeforeCleanup) > maxBranches)
       => LET pre == BranchesBeforeCleanup
              Deleted(i) == ~HasBranch(branches, pre[i].id)
          IN /\ Len(branches) = maxBranches
             /\ \A i, j \in 1..Len(pre) :
                   (Deleted(i) /\ ~Deleted(j)) => LastNumber(pre[i]) <= LastNumber(pre[j])
             /\ (last.params.branchFromThought # 0 /\ last.params.branchId # Undef)
                   => HasBranch(branches, last.params.branchId)

\* C17: eviction never deletes or alters a durable row: whatever the server
\* is asked, the rows of table thoughts before the call are still there, in
\* place, after it.
ServerRowsNeverShrink ==
    (impl = "server" /\ last.op # "init")
       => /\ Len(before.thoughtRows) <= Len(thoughtRows)
          /\ SubSeq(thoughtRows, 1, Len(before.thoughtRows)) = before.thoughtRows

EvictedButStored ==
    /\ AcceptedThought
    /\ currentSequenceId # 0
    /\ Len(before.thoughtHistory) >= maxThoughtHistory
    /\ Len(thoughtHistory) = maxThoughtHistory
    /\ Len(thoughtRows) > Len(thoughtHistory)
    /\ \E i \in 1..Len(before.thoughtRows) :
          /\ before.thoughtRows[i].sequenceId = currentSequenceId
          /\ \A j \in 1..Len(thoughtHistory) :
                ThoughtRow(thoughtHistory[j], currentSequenceId) # before.thoughtRows[i]

\* when an accepted thought returns after calls invoked under an active
\* sequence overlapped, its row has been added, and the sequences stored
\* before have received no more rows than there were submissions
OverlappedPersistsAccepted ==
    (impl = "server" /\ last.op = "invoked" /\ ReturnedThought /\ before.currentSequenceId # 0)
       => /\ Cardinality({r \in (Len(before.thoughtRows) + 1)..Len(thoughtRows) :
                            thoughtRows[r].sequenceId \in DOMAIN before.sequences})
                <= Cardinality(OverlappedThoughts)
          /\ SubSeq(thoughtRows, 1, Len(before.thoughtRows)) = before.thoughtRows
          /\ \E r \in (Len(before.thoughtRows) + 1)..Len(thoughtRows) :
                ThoughtRecordOf(thoughtRows[r]) = ValidatedInput(Response.params)

\* C18: a thought accepted while a sequence is active adds exactly one row,
\* holding that thought, under the active sequence id; a thought accepted
\* while no sequence is active leaves table thoughts as it was; when calls
\* overlap, the row of an accepted thought is there when it returns.
ServerPersistsAccepted ==
    /\ OverlappedPersistsAccepted
    /\ (impl = "server" /\ AcceptedThought)
       => IF before.currentSequenceId # 0
          THEN /\ Len(thoughtRows) = Len(before.thoughtRows) + 1
               /\ SubSeq(thoughtRows, 1, Len(before.thoughtRows)) = before.thoughtRows
               /\ thoughtRows[Len(thoughtRows)].sequenceId = before.currentSequenceId
               /\ ThoughtRecordOf(thoughtRows[Len(thoughtRows)]) = ValidatedInput(last.params)
          ELSE thoughtRows = before.thoughtRows

StoredUnderActiveSequence ==
    /\ AcceptedThought
    /\ before.currentSequenceId = 2
    /\ thoughtRows # <<>>
    /\ thoughtRows[Len(thoughtRows)].sequenceId = 2

\* the last submission was valid and its durable write failed
WriteFailed == SubmittedThought /\ last.error = WriteError

\* C19: when the durable write of an otherwise valid submission fails, the
\* thought stays in the main line and the result is a partial-success
\* warning, not the {error, status: 'failed'} result of a validation failure.
ServerPartialSuccess ==
    (impl = "server" /\ WriteFailed)
       => /\ thoughtHistory = Append(before.thoughtHistory, ValidatedInput(last.params))
          /\ ~(processThoughtResult.isError /\ processThoughtResult.status = "failed")

----------------------------------------------------------------------------
(* Properties of the index.ts tool handler *)

CalledTool == last.op = "sequential_thinking"

\* the line a call targets: the main line, or the branch named by branchId
LineOf(state, params) ==
    IF SessionOf(params) = "main" THEN state.thoughtHistory
    ELSE BranchOrEmpty(state.branches, SessionOf(params))

EntryNumbersIn(line) == {line[i].number : i \in 1..Len(line)}

\* C4: a revision whose revisesThought is not a number of the targeted line is
\* rejected with an error result and the main line and branches stay as they
\* were: no entry is created under that number.
IndexRevisionTarget ==
    (/\ CalledTool
     /\ last.params.isRevision
     /\ last.params.revisesThought # 0
     /\ last.params.revisesThought \notin EntryNumbersIn(LineOf(before, last.params)))
       => /\ last.error # OK
          /\ IndexState = before

\* C7: an accepted revision of n in a line that holds an entry numbered n
\* overwrites that entry in place: the line keeps its length, the entry keeps
\* number n and carries the new content, and every other entry is as it was.
IndexRevisionInPlace ==
    (/\ CalledTool
     /\ last.error = OK
     /\ last.params.isRevision
     /\ last.params.revisesThought \in EntryNumbersIn(LineOf(before, last.params)))
       => LET old == LineOf(before, last.params)
              new == LineOf(IndexState, last.params)
          IN /\ Len(new) = Len(old)
             /\ \E i \in 1..Len(old) :
                   /\ old[i].number = last.params.revisesThought
                   /\ new[i].number = last.params.revisesThought
                   /\ new[i].content = last.params.thought
                   /\ \A j \in 1..Len(old) : j # i => new[j] = old[j]

\* C8: the first call carrying a fresh branchId with branchFromThought = k
\* creates a branch made of copies of the main-line entries numbered <= k, in
\* main-line order, followed by the submitted thought.
IndexBranchSeeding ==
    (/\ CalledTool
     /\ last.error = OK
     /\ last.params.branchFromThought # 0
     /\ last.params.branchId # Undef
     /\ last.params.branchId \notin DOMAIN before.branches)
       => LET UpTo(entry) == entry.number <= last.params.branchFromThought
          IN /\ last.params.branchId \in DOMAIN entryBranches
             /\ entryBranches[last.params.branchId] =
                   Append(SelectSeq(before.thoughtHistory, UpTo), ThoughtEntryOf(last.params))

----------------------------------------------------------------------------
(* Properties that span the engines *)

\* the field checks of validateThoughtData that precede the consistency rules
\* (lines 1062-1116) pass
FieldsAreValid(data) ==
    /\ data.thought # <<>>
    /\ Len(data.thought) <= MaxThoughtLength
    /\ data.thoughtNumber >= 1
    /\ data.totalThoughts >= 1

\* C5: a submission with isRevision = TRUE and no revisesThought is rejected
\* and stores nothing: addThought leaves the session as it was, processThought
\* leaves thoughtHistory and branches as they were. The error is
\* 'revisesThought is required when isRevision is true' for every submission
\* to an existing session (manager) and for every submission whose fields pass
\* the earlier checks of validateThoughtData (server).
RevisionRequiresTarget ==
    /\ (AddedThought /\ last.params.isRevision /\ last.params.revisesThought = 0)
          => /\ last.error = "revisesThought is required when isRevision is true"
             /\ sessions = before
    /\ (/\ last.op \in {"processThought", "saveSequence"}
        /\ last.params.isRevision
        /\ last.params.revisesThought = 0)
          => /\ last.error # OK
             /\ FieldsAreValid(last.params)
                  => last.error = "revisesThought is required when isRevision is true"
             /\ thoughtHistory = before.thoughtHistory
             /\ branches = before.branches

\* the last call to the server was rejected by validateSequenceThoughtData,
\* validateThoughtData or validateBranchLimits
ServerValidationFailed ==
    /\ last.op \in {"processThought", "saveSequence", "loadSequence", "importSequence"}
    /\ \/ validateSequenceThoughtData(last.params) # OK
       \/ /\ last.op = "processThought"
          /\ validateBranchLimits(before.branches, last.params) # OK

\* C20: a submission rejected by validation mutates nothing: after a
\* validation failure of processThought the main line, the branches, the
\* active sequence id and both tables are as before the call; after
\* validateThoughtSequence throws in addThought the session is as before.
ValidationNeverMutates ==
    /\ ServerValidationFailed
          => /\ last.error \notin {OK, WriteError}
             /\ ServerState = before
    /\ (AddedThought /\ validateThoughtSequence(SessionBefore, last.params) # OK)
          => /\ last.error # OK
             /\ sessions = before

RejectedByBranchLimit ==
    /\ SubmittedThought
    /\ validateThoughtData(last.params) = OK
    /\ last.error = "Maximum number of branches exceeded"
    /\ Len(thoughtHistory) = 2
    /\ Len(branches) = 2

RevisionWithoutTarget ==
    /\ last.op = "processThought"
    /\ last.params.isRevision
    /\ last.params.revisesThought = 0
    /\ thoughtHistory # <<>>
    /\ branches # <<>>
    /\ last.error # OK

----------------------------------------------------------------------------
(* Properties of the sequence directives *)

DirectiveCall ==
    last.op \in {"searchSequence", "exportSequence", "importSequence", "loadSequence",
                 "saveSequence"}

\* the id generateId gave the sequence the last call created
CreatedId == Cardinality(DOMAIN before.sequences) + 1

\* the rows the last call added to table thoughts
NewRows == SubSeq(thoughtRows, Len(before.thoughtRows) + 1, Len(thoughtRows))

\* a is the beginning of b
IsPrefix(a, b) == Len(a) <= Len(b) /\ a = SubSeq(b, 1, Len(a))

\* C21: a submission that carries a directive performs the directive only.
\* Its own thought reaches neither the main line, nor a branch, nor table
\* thoughts: a search or an export leaves the whole state as it was; an import
\* leaves the main line and the branches as they were and adds rows of the
\* bundle only (all of them when it succeeds); a save leaves them as they were
\* and adds rows of the main line only (all of them when it succeeds); a load
\* replaces them by the stored thoughts and adds no row.
DirectiveOnly ==
    DirectiveCall =>
       /\ last.op \in {"searchSequence", "exportSequence"} => ServerState = before
       /\ (last.op = "loadSequence" /\ last.error # OK) => ServerState = before
       /\ last.op = "importSequence" =>
             /\ thoughtHistory = before.thoughtHistory
             /\ branches = before.branches
             /\ currentSequenceId = before.currentSequenceId
             /\ IsPrefix(NewRows, RowsOf(last.params.importSequence.data.thoughts, CreatedId))
             /\ last.error = OK =>
                   NewRows = RowsOf(last.params.importSequence.data.thoughts, CreatedId)
       /\ last.op = "saveSequence" =>
             /\ thoughtHistory = before.thoughtHistory
             /\ branches = before.branches
             /\ IsPrefix(NewRows, RowsOf(before.thoughtHistory, CreatedId))
             /\ last.error = OK => NewRows = RowsOf(before.thoughtHistory, CreatedId)
       /\ (last.op = "loadSequence" /\ last.error = OK) =>
             /\ thoughtRows = before.thoughtRows
             /\ Len(thoughtHistory) =
                   Cardinality({r \in 1..Len(thoughtRows) :
                                  thoughtRows[r].sequenceId = last.params.loadSequence})
             /\ \A b \in 1..Len(branches) : \A i \in 1..Len(branches[b].thoughts) :
                   Includes(thoughtHistory, branches[b].thoughts[i])

ExportedWithoutAppending ==
    /\ last.op = "exportSequence"
    /\ last.error = OK
    /\ Len(last.exported.thoughts) > 0
    /\ thoughtHistory # <<>>

\* the last call imported the bundle an export of sequence ExportedId returned
ImportedExport ==
    /\ last.op = "importSequence"
    /\ last.error = OK
    /\ "id" \in DOMAIN last.params.importSequence.data.sequence

ExportedId == last.params.importSequence.data.sequence.id

\* C22: exporting the active, saved sequence S and importing the bundle
\* yields a sequence S' under another id, with the thoughtCount of S and with
\* the thoughts of S as loadSequenceThoughts returns them, whatever was
\* submitted to S after the save.
RoundTripPreserves ==
    (ImportedExport /\ ExportedId = currentSequenceId) =>
       /\ CreatedId # ExportedId
       /\ sequences[CreatedId].thoughtCount = sequences[ExportedId].thoughtCount
       /\ loadSequenceThoughts(CreatedId) = loadSequenceThoughts(ExportedId)

\* the part of C22 that holds: another id, the same thoughts in the same order
RoundTripPreservesThoughts ==
    ImportedExport =>
       /\ CreatedId # ExportedId
       /\ CreatedId \notin DOMAIN before.sequences
       /\ sequences[CreatedId].thoughtCount = Len(loadSequenceThoughts(ExportedId))
       /\ loadSequenceThoughts(CreatedId) = loadSequenceThoughts(ExportedId)

\* C23: importSequence never overwrites. Every sequence row and every thought
\* row stored before an import is still there unchanged after it, the main
\* line, the branches and the active sequence id are as before, and an import
\* that succeeds has put its sequence under an id no sequence had.
ImportNeverOverwrites ==
    last.op = "importSequence" =>
       /\ \A id \in DOMAIN before.sequences :
             id \in DOMAIN sequences /\ sequences[id] = before.sequences[id]
       /\ SubSeq(thoughtRows, 1, Len(before.thoughtRows)) = before.thoughtRows
       /\ thoughtHistory = before.thoughtHistory
       /\ branches = before.branches
       /\ currentSequenceId = before.currentSequenceId
       /\ last.error = OK =>
             /\ last.sequenceId \notin DOMAIN before.sequences
             /\ last.sequenceId \in DOMAIN sequences
             /\ \A r \in (Len(before.thoughtRows) + 1)..Len(thoughtRows) :
                   thoughtRows[r].sequenceId = last.sequenceId

ImportedBesideStored ==
    /\ last.op = "importSequence"
    /\ last.error = OK
    /\ before.sequences # <<>>
    /\ before.thoughtRows # <<>>
    /\ currentSequenceId # 0
    /\ Len(thoughtRows) > Len(before.thoughtRows)

\* the number of times x occurs in seq
CountIn(seq, x) == Cardinality({i \in 1..Len(seq) : seq[i] = x})

\* two lists hold the same thoughts, each as often
SameThoughts(a, b) ==
    /\ Len(a) = Len(b)
    /\ \A i \in 1..Len(a) : CountIn(a, a[i]) = CountIn(b, a[i])

\* two branch maps hold the same branch ids with the same thoughts
SameBranches(a, b) ==
    /\ {a[i].id : i \in 1..Len(a)} = {b[i].id : i \in 1..Len(b)}
    /\ \A i \in 1..Len(a), j \in 1..Len(b) :
          a[i].id = b[j].id => SameThoughts(a[i].thoughts, b[j].thoughts)

\* a successful saveSequence was followed at once by loadSequence of the id
\* it returned, and the load has returned with no other call in between
LoadRightAfterSave ==
    /\ last.op = "loadSequence"
    /\ "after" \in DOMAIN last
    /\ last.after = [op |-> "saveSequence", error |-> OK]
    /\ last.params.loadSequence = before.currentSequenceId

\* the main line a load right after a save leaves: the thoughts of before,
\* in the order of their numbers, under the loaded sequence
ResumedMainLine ==
    /\ last.error = OK
    /\ SameThoughts(thoughtHistory, before.thoughtHistory)
    /\ \A i \in 1..(Len(thoughtHistory) - 1) :
          thoughtHistory[i].thoughtNumber <= thoughtHistory[i + 1].thoughtNumber
    /\ currentSequenceId = before.currentSequenceId

\* C24: after saveSequence immediately followed by loadSequence of the
\* returned id, the main line holds the thoughts it held before the save, in
\* the order of their numbers, the branch map holds the same branch ids with
\* the same thoughts, and the loaded sequence is the active one.
SaveThenLoadRestores ==
    LoadRightAfterSave => (ResumedMainLine /\ SameBranches(branches, before.branches))

\* the part of C24 that holds: the main line and the active sequence
SaveThenLoadRestoresMainLine == LoadRightAfterSave => ResumedMainLine

----------------------------------------------------------------------------
(* Properties of overlapping calls *)

\* the state a thought submission leaves when it runs from state st with no
\* other call in between
ThoughtAlone(st, input) ==
    LET validatedInput == ValidatedInput(input)
        pushed == PushThought(st.thoughtHistory, validatedInput)
        branched == IF input.branchFromThought # 0 /\ input.branchId # Undef
                    THEN BranchPush(st.branches, input.branchId, validatedInput)
                    ELSE st.branches
    IN IF validateSequenceThoughtData(input) # OK \/ validateBranchLimits(st.branches, input) # OK
       THEN st
       ELSE [st EXCEPT
               !.thoughtHistory = cleanupOldThoughts(pushed),
               !.branches = cleanupOldBranches(branched),
               !.thoughtRows = IF st.currentSequenceId # 0
                               THEN saveThought(@, validatedInput, st.currentSequenceId)
                               ELSE @,
               !.sequences = IF st.currentSequenceId # 0
                             THEN updateSequenceModified(@, st.currentSequenceId, Len(pushed), 0)
                             ELSE @]

\* the state a loadSequence directive leaves when it runs from state st with
\* no other call in between
LoadAlone(st, input) ==
    IF validateSequenceThoughtData(input) # OK \/ input.loadSequence \notin DOMAIN st.sequences
    THEN st
    ELSE [st EXCEPT
            !.thoughtHistory = SequenceThoughts(st.thoughtRows, input.loadSequence),
            !.branches = RebuildBranches(SequenceThoughts(st.thoughtRows, input.loadSequence)),
            !.currentSequenceId = input.loadSequence]

\* the state a saveSequence directive leaves when it runs from state st with
\* no other call in between
SaveAlone(st, input) ==
    LET sequenceId == Cardinality(DOMAIN st.sequences) + 1 IN
    IF validateSequenceThoughtData(input) # OK
    THEN st
    ELSE [st EXCEPT
            !.sequences = MapSet(@, sequenceId,
                                 [title |-> input.saveSequence.title,
                                  description |-> DescriptionOrNull(input.saveSequence),
                                  thoughtCount |-> Len(st.thoughtHistory),
                                  lastModified |-> 0]),
            !.thoughtRows = @ \o RowsOf(st.thoughtHistory, sequenceId),
            !.currentSequenceId = sequenceId]

RunAlone(st, input) ==
    IF input.directive = "loadSequence" THEN LoadAlone(st, input)
    ELSE IF input.directive = "saveSequence" THEN SaveAlone(st, input)
    ELSE ThoughtAlone(st, input)

\* a state without the times of modification
Timeless(st) ==
    [st EXCEPT !.sequences = [id \in DOMAIN st.sequences |->
                                [title |-> st.sequences[id].title,
                                 description |-> st.sequences[id].description,
                                 thoughtCount |-> st.sequences[id].thoughtCount]]]

\* two calls overlapped and both have returned
OverlapEnded ==
    /\ last.op = "invoked"
    /\ Len(last.params) = 2
    /\ inflight = <<>>

\* RunAlone is what a call does that overlaps with no other call
RunAloneIsTheCall ==
    (last.op \in {"processThought", "loadSequence", "saveSequence"} /\ last.error # WriteError)
       => Timeless(ServerState) = Timeless(RunAlone(before, last.params))

\* C25: overlapping calls are serialized. When a second call was invoked
\* while the first was suspended at an await, then once both have returned
\* the main line, the branches, the active sequence id and both tables (with
\* every thoughtCount) are what running the two calls one after the other, in
\* one of the two orders, leaves.
OverlapIsSerialized ==
    OverlapEnded =>
       \/ Timeless(ServerState)
             = Timeless(RunAlone(RunAlone(before, last.params[1]), last.params[2]))
       \/ Timeless(ServerState)
             = Timeless(RunAlone(RunAlone(before, last.params[2]), last.params[1]))

\* C26: thought rows of one active sequence are inserted in submission
\* order. When two thought submissions to the active sequence overlapped, the
\* row of the one invoked first precedes the row of the one invoked second.
RowsInSubmissionOrder ==
    (/\ OverlapEnded
     /\ before.currentSequenceId # 0
     /\ \A k \in 1..2 : last.params[k].directive = "none") =>
       SubSeq(thoughtRows, Len(before.thoughtRows) + 1, Len(thoughtRows))
          = <<ThoughtRow(ValidatedInput(last.params[1]), before.currentSequenceId),
              ThoughtRow(ValidatedInput(last.params[2]), before.currentSequenceId)>>

\* C27: saveSequence and importSequence are all-or-nothing. After a save or
\* an import that failed, table sequences and table thoughts hold what they
\* held before the call and the active sequence is the same; after one that
\* succeeded the sequence row and all of its thought rows are stored.
SaveAndImportAreAtomic ==
    (last.op \in {"saveSequence", "importSequence"}) =>
       /\ last.error # OK =>
             /\ sequences = before.sequences
             /\ thoughtRows = before.thoughtRows
             /\ currentSequenceId = before.currentSequenceId
       /\ last.error = OK =>
             /\ CreatedId \in DOMAIN sequences
             /\ Len(NewRows) = IF last.op = "saveSequence"
                               THEN Len(before.thoughtHistory)
                               ELSE Len(last.params.importSequence.data.thoughts)

\* the part of C27 that holds: a failed save or import leaves the active
\* sequence as it was, a successful one has stored the row and all thoughts
FailedSaveKeepsActiveSequence ==
    (last.op \in {"saveSequence", "importSequence"}) =>
       /\ last.error # OK => currentSequenceId = before.currentSequenceId
       /\ last.error = OK =>
             /\ CreatedId \in DOMAIN sequences
             /\ Len(NewRows) = IF last.op = "saveSequence"
                               THEN Len(before.thoughtHistory)
                               ELSE Len(last.params.importSequence.data.thoughts)

----------------------------------------------------------------------------
(* Properties of the tool handlers and of the dynamic total *)

\* the thought the last call submitted was accepted
AcceptedSubmission ==
    /\ last.op \in {"handleSequentialThinking", "processThought"}
    /\ last.error = OK

\* Math.max(submitted totalThoughts, thoughtNumber) of the last submission
RaisedTotal ==
    IF last.params.thoughtNumber > last.params.totalThoughts
    THEN last.params.thoughtNumber
    ELSE last.params.totalThoughts

\* C28: for every accepted thought the totalThoughts stored with it and
\* returned in the result is the larger of the submitted totalThoughts and the
\* thoughtNumber: the session-manager.ts handler stores it in the session and
\* returns it in the metadata, processThought stores it in the main line and in
\* the thought's row under the active sequence and returns it in the response;
\* so every thought of the main line and every stored row has
\* totalThoughts >= thoughtNumber.
DynamicTotalThoughts ==
    /\ (AcceptedSubmission /\ impl = "session-manager.ts") =>
          /\ sessions[defaultSessionId].totalThoughts = RaisedTotal
          /\ last.result.content.totalThoughts = RaisedTotal
    /\ (AcceptedSubmission /\ impl = "server") =>
          /\ last.totalThoughts = RaisedTotal
          /\ thoughtHistory # <<>>
          /\ thoughtHistory[Len(thoughtHistory)].thoughtNumber = last.params.thoughtNumber
          /\ thoughtHistory[Len(thoughtHistory)].totalThoughts = RaisedTotal
          /\ currentSequenceId # 0 =>
                \E i \in 1..Len(thoughtRows) :
                    /\ thoughtRows[i].sequenceId = currentSequenceId
                    /\ thoughtRows[i].thoughtNumber = last.params.thoughtNumber
                    /\ thoughtRows[i].totalThoughts = RaisedTotal
    /\ (impl = "server" /\ ReturnedThought) =>
          Response.totalThoughts = MathMax(Response.params.totalThoughts,
                                           Response.params.thoughtNumber)
    /\ \A i \in 1..Len(thoughtHistory) :
          thoughtHistory[i].totalThoughts >= thoughtHistory[i].thoughtNumber
    /\ \A i \in 1..Len(thoughtRows) :
          thoughtRows[i].totalThoughts >= thoughtRows[i].thoughtNumber

\* the handler accepted a thought numbered above its submitted totalThoughts
TotalWasRaised ==
    /\ AcceptedSubmission
    /\ impl = "session-manager.ts"
    /\ last.params.thoughtNumber > last.params.totalThoughts
    /\ Len(sessions[defaultSessionId].thoughts) > 1

\* the last call was a submission the tool handler failed on
FailedInHandler == last.op = "handleSequentialThinking" /\ last.error # OK

\* a result that carries the isError marker, the error reason and status 'failed'
MarkedAsFailure(result, reason) ==
    /\ "isError" \in DOMAIN result
    /\ result.isError
    /\ {"error", "status"} \subseteq DOMAIN result.content
    /\ result.content.error = reason
    /\ result.content.status = "failed"

\* C29: every submission that fails in handleSequentialThinking of server.ts
\* returns a result with the isError marker, the error reason and status
\* 'failed', so that no failed submission has the shape of a success result.
ServerHandlerMarksFailure ==
    (impl = "server.ts" /\ FailedInHandler) => MarkedAsFailure(last.result, last.error)

\* the handler of session-manager.ts marks every failure
SessionHandlerMarksFailure ==
    (impl = "session-manager.ts" /\ FailedInHandler) => MarkedAsFailure(last.result, last.error)

\* the handler of server.ts reports the reason of every failure in its text
ServerHandlerReportsReason ==
    (impl = "server.ts" /\ FailedInHandler) =>
        /\ DOMAIN last.result = {"content"}
        /\ last.result.content.text = "Error"
        /\ last.result.content.message = last.error

----------------------------------------------------------------------------
(* Properties of the fuzzy score *)

\* the string lower-cased, character by character
Lowered(text) == [i \in 1..Len(text) |-> IF text[i] = "A" THEN "a" ELSE text[i]]

\* s occurs in t as a run of adjacent characters
OccursIn(s, t) ==
    \E from \in 1..(Len(t) + 1) :
        /\ from + Len(s) - 1 <= Len(t)
        /\ \A k \in 1..Len(s) : t[from + k - 1] = s[k]

\* s begins a whitespace-delimited word of t: it has no blank and stands at the
\* start of t or right after a blank
BeginsWord(s, t) ==
    /\ s # <<>>
    /\ \A k \in 1..Len(s) : s[k] # " "
    /\ \E from \in 1..Len(t) :
          /\ from = 1 \/ t[from - 1] = " "
          /\ from + Len(s) - 1 <= Len(t)
          /\ \A k \in 1..Len(s) : t[from + k - 1] = s[k]

\* the characters of s at the positions I, in order
Picked(s, I) ==
    LET F[k \in 0..Len(s)] ==
            IF k = 0 THEN <<>>
            ELSE IF k \in I THEN Append(F[k - 1], s[k]) ELSE F[k - 1]
    IN F[Len(s)]

Subsequences(s) == {Picked(s, I) : I \in SUBSET (1..Len(s))}

\* the length of a longest common subsequence
LCS(a, b) ==
    LET common == Subsequences(a) \cap Subsequences(b)
    IN CHOOSE n \in 0..Len(a) :
          /\ \E c \in common : Len(c) = n
          /\ \A c \in common : Len(c) <= n

\* the integer nearest to num / den, the upper one of two
Rounded(num, den) ==
    CHOOSE r \in 0..num : (2 * r - 1) * den <= 2 * num /\ 2 * num < (2 * r + 1) * den

\* the reference tier function on the normalized strings
ReferenceScore(query, target) ==
    LET q == Lowered(query)
        t == Lowered(target)
    IN IF q = t THEN 100
       ELSE IF OccursIn(q, t) THEN 80
       ELSE IF BeginsWord(q, t) THEN 60
       ELSE Rounded(2 * LCS(q, t) * 40, Len(q) + Len(t))

\* the last call fell through to the similarity tier
InSimilarityTier ==
    /\ last.op = "calculateFuzzyScore"
    /\ Lowered(last.query) # Lowered(last.target)
    /\ ~OccursIn(Lowered(last.query), Lowered(last.target))
    /\ ~BeginsWord(Lowered(last.query), Lowered(last.target))

\* C30: calculateFuzzyScore(query, target) is the reference tier function of
\* the normalized strings: 100 when they are equal, else 80 when the target
\* contains the query, else 60 when a whitespace-delimited word of the target
\* starts with the query, else round(2 * LCS / (|query| + |target|) * 40),
\* which is at most 40.
FuzzyScoreIsTiered ==
    /\ last.op = "calculateFuzzyScore" => last.score = ReferenceScore(last.query, last.target)
    /\ InSimilarityTier => last.score <= 40

\* a mixed-case query scored in the similarity tier, above zero
ScoredBySimilarity ==
    /\ InSimilarityTier
    /\ \E k \in 1..Len(last.query) : last.query[k] = "A"
    /\ last.score > 0
    /\ last.score < 40

----------------------------------------------------------------------------
(* Properties of the fuzzy search *)

\* the last call was a fuzzy search that returned
FuzzySearched ==
    /\ last.op = "searchSequence"
    /\ last.error = OK
    /\ ~last.params.searchSequence.contentSearch

\* the limit searchSequences was given
LimitOf(search) == IF search.limit # 0 THEN search.limit ELSE 10

\* 'strategy' was searched with limit 10 over exactly two sequences, titled
\* 'Strategy' and 'Strategic Plan'
StrategySearched ==
    /\ FuzzySearched
    /\ last.params.searchSequence.query = strategy
    /\ LimitOf(last.params.searchSequence) = 10
    /\ Cardinality(DOMAIN sequences) = 2
    /\ {sequences[id].title : id \in DOMAIN sequences} = {Strategy, StrategicPlan}

\* C31: a fuzzy search for 'strategy' with limit 10 over sequences titled
\* 'Strategy' and 'Strategic Plan' returns both, 'Strategy' first with score
\* 100 and 'Strategic Plan' second with score 60, as a prefix match.
StrategySearchScores ==
    StrategySearched =>
        /\ Len(last.results) = 2
        /\ sequences[last.results[1]].title = Strategy
        /\ SequenceScore(strategy, last.results[1]) = 100
        /\ sequences[last.results[2]].title = StrategicPlan
        /\ SequenceScore(strategy, last.results[2]) = 60

\* the part of C31 that holds: both are returned, the exact match first with
\* score 100; 'Strategic Plan' scores 25 by its common subsequence 'strateg'
StrategySearchOrder ==
    StrategySearched =>
        /\ Len(last.results) = 2
        /\ sequences[last.results[1]].title = Strategy
        /\ SequenceScore(strategy, last.results[1]) = 100
        /\ sequences[last.results[2]].title = StrategicPlan
        /\ SequenceScore(strategy, last.results[2]) = 25
        /\ longestCommonSubsequence(strategy, toLowerCase(StrategicPlan)) = 7

\* the maximum of the title score and the description score
ScoreOf(query, id) ==
    LET titleScore == calculateFuzzyScore(query, sequences[id].title)
        described == sequences[id].description \notin {NoDescription, <<>>}
        descriptionScore == IF described
                            THEN calculateFuzzyScore(query, sequences[id].description)
                            ELSE 0
    IN IF titleScore >= descriptionScore THEN titleScore ELSE descriptionScore

\* the sequences scoring more than 20
Matching(query) == {id \in DOMAIN sequences : ScoreOf(query, id) > 20}

\* a may stand before b: a higher score, or the same score and modified no earlier
RanksBefore(query, a, b) ==
    \/ ScoreOf(query, a) > ScoreOf(query, b)
    \/ /\ ScoreOf(query, a) = ScoreOf(query, b)
       /\ sequences[a].lastModified >= sequences[b].lastModified

\* results is the list of the sequences scoring more than 20, by score
\* descending, then lastModified descending, cut to limit entries
RankedResults(query, limit, results) ==
    LET found == {results[i] : i \in 1..Len(results)}
    IN /\ Len(results) <= limit
       /\ found \subseteq Matching(query)
       /\ Cardinality(found) = Len(results)
       /\ Len(results) = limit \/ found = Matching(query)
       /\ \A i \in 1..Len(results) : \A j \in (i + 1)..Len(results) :
             RanksBefore(query, results[i], results[j])
       /\ \A id \in Matching(query) \ found : \A i \in 1..Len(results) :
             RanksBefore(query, results[i], id)

\* the string has a character that is not whitespace
HasWord(text) == \E k \in 1..Len(text) : text[k] # " "

\* C32 as stated: for a non-empty query with contentSearch false,
\* searchSequences returns exactly the sequences whose score, the maximum of
\* title score and description score, is greater than 20, by score descending,
\* ties by lastModified descending, cut to limit; never more than limit
\* entries, never a sequence scoring 20 or less.
FuzzySearchRanksNonEmpty ==
    (FuzzySearched /\ last.params.searchSequence.query \notin {NoQuery, <<>>}) =>
        RankedResults(last.params.searchSequence.query, LimitOf(last.params.searchSequence),
                      last.results)

\* results is the list of the sequences, most recently modified first,
\* whatever their score, cut to limit entries
ListedResults(limit, results) ==
    LET found == {results[i] : i \in 1..Len(results)}
    IN /\ Len(results) <= limit
       /\ found \subseteq DOMAIN sequences
       /\ Cardinality(found) = Len(results)
       /\ Len(results) = limit \/ found = DOMAIN sequences
       /\ \A i \in 1..Len(results) : \A j \in (i + 1)..Len(results) :
             sequences[results[i]].lastModified >= sequences[results[j]].lastModified
       /\ \A id \in DOMAIN sequences \ found : \A i \in 1..Len(results) :
             sequences[results[i]].lastModified >= sequences[id].lastModified

\* C32, amended: the same for a query that has a character other than
\* whitespace; a query of whitespace alone is treated as no query: the
\* sequences are listed most recently modified first, up to limit, whatever
\* their score.
FuzzySearchRanks ==
    /\ (FuzzySearched /\ last.params.searchSequence.query # NoQuery
                      /\ HasWord(last.params.searchSequence.query)) =>
          RankedResults(last.params.searchSequence.query,
                        LimitOf(last.params.searchSequence), last.results)
    /\ (FuzzySearched /\ last.params.searchSequence.query # NoQuery
                      /\ ~HasWord(last.params.searchSequence.query)) =>
          ListedResults(LimitOf(last.params.searchSequence), last.results)

\* a search cut by its limit: two sequences tie above 20, one by its
\* description, a third scores 20 or less, and the one of the two that was
\* modified later is returned
SearchWasCut ==
    /\ FuzzySearched
    /\ HasWord(last.params.searchSequence.query)
    /\ LimitOf(last.params.searchSequence) = 1
    /\ Len(last.results) = 1
    /\ Cardinality(Matching(last.params.searchSequence.query)) = 2
    /\ Cardinality(DOMAIN sequences) = 3
    /\ \E a \in DOMAIN sequences, b \in DOMAIN sequences :
          /\ a # b
          /\ ScoreOf(last.params.searchSequence.query, a)
                = ScoreOf(last.params.searchSequence.query, b)
          /\ sequences[a].description # NoDescription
          /\ ScoreOf(last.params.searchSequence.query, a) > 20
          /\ sequences[a].lastModified < sequences[b].lastModified
          /\ last.results = <<b>>

----------------------------------------------------------------------------
(* Properties of the stored content *)

\* every thought text the server holds: main line, branches, durable rows
StoredTexts ==
    {thoughtHistory[i].thought : i \in 1..Len(thoughtHistory)}
    \cup UNION {{branches[b].thoughts[i].thought : i \in 1..Len(branches[b].thoughts)} :
                  b \in 1..Len(branches)}
    \cup {thoughtRows[r].thought : r \in 1..Len(thoughtRows)}

\* the text has no control character
Stripped(text) == \A k \in 1..Len(text) : text[k] # "BEL"

\* C33: every thought processThought accepted is stored, in thoughtHistory, in
\* a branch and in its durable row, with content that has its control
\* characters stripped and is non-empty (1 to 10000 characters), also when the
\* raw text was only whitespace or control characters.
StoredContentNonEmpty ==
    \A text \in StoredTexts :
        /\ Stripped(text)
        /\ Len(text) >= 1
        /\ Len(text) <= 10000

\* the part of C33 that holds: stored content has no control character, no
\* whitespace at either end and at most 10000 characters, and the raw text
\* of an accepted thought is non-empty
StoredContentStripped ==
    /\ \A text \in StoredTexts :
          /\ Stripped(text)
          /\ text = <<>> \/ (text[1] # " " /\ text[Len(text)] # " ")
          /\ Len(text) <= 10000
    /\ (last.op = "processThought" /\ last.error = OK) => last.params.thought # <<>>

----------------------------------------------------------------------------
(* Properties of the verification projections *)

\* the last call was a projection that returned
Projected == last.op \in {"getSessionSummary", "getVerificationStatus"} /\ last.error = OK

\* the call before the last was the same projection, and it returned
ProjectedTwice ==
    /\ Projected
    /\ before.last.op = last.op
    /\ before.last.error = OK

\* C34: the verification projection is read-only and idempotent: a call of
\* getSessionSummary, or of getVerificationStatus and
\* getHypothesesNeedingVerification, leaves the session, thoughtHistory and
\* branches unchanged, and two calls with no mutation between them return
\* equal results.
ProjectionIsReadOnly ==
    /\ last.op = "getSessionSummary" => sessions = before.state
    /\ last.op = "getVerificationStatus" => ServerState = before.state
    /\ (ProjectedTwice /\ last.op = "getSessionSummary") =>
          last.summary = before.last.summary
    /\ (ProjectedTwice /\ last.op = "getVerificationStatus") =>
          /\ last.verificationStatus = before.last.verificationStatus
          /\ last.unverifiedHypotheses = before.last.unverifiedHypotheses

\* the summary was taken twice in a row of a session with a verified hypothesis
SummarizedTwice ==
    /\ ProjectedTwice
    /\ last.op = "getSessionSummary"
    /\ last.summary.hypotheses.total > 0
    /\ last.summary.hypotheses.pending < last.summary.hypotheses.total

----------------------------------------------------------------------------
(* Properties of the sessions of SequentialThinkingManager *)

\* the sessions other than the one the last call named are as they were
OtherSessionsKept ==
    \A id \in (DOMAIN sessions \cup DOMAIN before) \ {last.sessionId} :
        /\ id \in DOMAIN sessions
        /\ id \in DOMAIN before
        /\ sessions[id] = before[id]

\* C35: session.thoughts.length and getSessionSummary(id).totalThoughts equal
\* the number of addThought calls on the session that returned without
\* throwing, and the thoughts are stored in call order: a new session has no
\* thought, an accepted addThought appends its thought to the thoughts stored
\* before, a rejected one changes nothing; addThought on an id that was never
\* created or has been deleted throws 'Session not found' and changes no session.
ManagerCountsAccepted ==
    /\ last.op = "createSession" =>
          /\ sessions[last.sessionId].thoughts = <<>>
          /\ getSessionSummary(sessions[last.sessionId]).totalThoughts = 0
          /\ OtherSessionsKept
    /\ (last.op = "addThought" /\ last.error = OK) =>
          LET stored == sessions[last.sessionId].thoughts
              earlier == before[last.sessionId].thoughts
          IN /\ Len(stored) = Len(earlier) + 1
             /\ SubSeq(stored, 1, Len(earlier)) = earlier
             /\ stored[Len(stored)].thoughtNumber = last.params.thoughtNumber
             /\ stored[Len(stored)].content = last.params.thought
             /\ getSessionSummary(sessions[last.sessionId]).totalThoughts = Len(earlier) + 1
             /\ OtherSessionsKept
    /\ (last.op = "addThought" /\ last.error # OK) => sessions = before
    /\ (last.op = "addThought" /\ last.sessionId \notin DOMAIN before) =>
          /\ last.error = "Session not found"
          /\ sessions = before
    /\ last.op = "deleteSession" =>
          /\ last.sessionId \notin DOMAIN sessions
          /\ OtherSessionsKept

\* addThought was called on a missing session while another held a thought
AddedToMissingSession ==
    /\ last.op = "addThought"
    /\ last.error = "Session not found"
    /\ \E id \in DOMAIN sessions : Len(sessions[id].thoughts) = 1

\* a second thought was accepted into a session
SecondThoughtCounted ==
    /\ last.op = "addThought"
    /\ last.error = OK
    /\ Len(sessions[last.sessionId].thoughts) = 2
    /\ Cardinality(DOMAIN sessions) = 2

\* C36: a session's isComplete, and getSessionSummary().isComplete, is true
\* exactly when the most recently accepted thought had nextThoughtNeeded =
\* false: false for a new session, set by every accepted thought to the
\* negation of its nextThoughtNeeded (so true after a final thought and false
\* again after a later open-ended one), and unchanged by a rejected addThought.
ManagerCompletion ==
    /\ last.op = "createSession" =>
          /\ ~sessions[last.sessionId].isComplete
          /\ ~getSessionSummary(sessions[last.sessionId]).isComplete
    /\ (last.op = "addThought" /\ last.error = OK) =>
          /\ sessions[last.sessionId].isComplete = ~last.params.nextThoughtNeeded
          /\ getSessionSummary(sessions[last.sessionId]).isComplete
                = ~last.params.nextThoughtNeeded
    /\ (last.op = "addThought" /\ last.error # OK /\ last.sessionId \in DOMAIN before) =>
          /\ sessions[last.sessionId].isComplete = before[last.sessionId].isComplete
          /\ getSessionSummary(sessions[last.sessionId]).isComplete
                = before[last.sessionId].isComplete

\* a completed session accepted an open-ended thought
SessionReopened ==
    /\ last.op = "addThought"
    /\ last.error = OK
    /\ last.params.nextThoughtNeeded
    /\ before[last.sessionId].isComplete

\* a completed session rejected an open-ended thought and stayed complete
RejectedAfterCompletion ==
    /\ last.op = "addThought"
    /\ last.error # OK
    /\ last.params.nextThoughtNeeded
    /\ last.sessionId \in DOMAIN before
    /\ before[last.sessionId].isComplete

----------------------------------------------------------------------------
(* Properties of the lines of the SQLite-backed server *)

\* the list of the branch id, empty when there is no such branch
BranchLine(bs, id) ==
    IF \E b \in 1..Len(bs) : bs[b].id = id
    THEN bs[CHOOSE b \in 1..Len(bs) : bs[b].id = id].thoughts
    ELSE <<>>

\* line holds the thought the last call submitted as its newest entry
NewestIsSubmitted(line) ==
    /\ line # <<>>
    /\ line[Len(line)] = ValidatedInput(last.params)

\* C37: an accepted thought is appended to exactly one line: to the branch list
\* named by its branchId when a branchId is set, the main-line thoughtHistory
\* staying as it was, and to thoughtHistory otherwise, every branch list
\* staying as it was.
AppendsToOneLine ==
    (impl = "server" /\ AcceptedThought) =>
        IF last.params.branchId # Undef
        THEN /\ NewestIsSubmitted(BranchLine(branches, last.params.branchId))
             /\ thoughtHistory = before.thoughtHistory
        ELSE /\ NewestIsSubmitted(thoughtHistory)
             /\ branches = before.branches

\* the part of C37 that holds: every accepted thought becomes the newest of
\* the main line; one with branchFromThought and branchId becomes the newest of
\* its branch list as well; one without leaves the branch lists as they were
AppendsToMainLine ==
    (impl = "server" /\ AcceptedThought) =>
        /\ NewestIsSubmitted(thoughtHistory)
        /\ IF last.params.branchFromThought # 0 /\ last.params.branchId # Undef
           THEN NewestIsSubmitted(BranchLine(branches, last.params.branchId))
           ELSE branches = before.branches

----------------------------------------------------------------------------
(* Properties of the thought numbers of a branch *)

\* the last call submitted a non-revision thought into a branch, from a
\* thought the session held
BranchedFromStored ==
    /\ impl = "manager"
    /\ last.op = "addThought"
    /\ last.sessionId \in DOMAIN before
    /\ ~last.params.isRevision
    /\ last.params.branchId # Undef
    /\ last.params.branchFromThought # 0
    /\ HasThought(before[last.sessionId], last.params.branchFromThought)

\* the session held a non-revision thought with the number n in the line of
\* the branch id (Undef for the main line)
NumberInLine(session, id, n) ==
    \E i \in 1..Len(session.thoughts) :
        /\ session.thoughts[i].thoughtNumber = n
        /\ session.thoughts[i].branchId = id
        /\ ~session.thoughts[i].isRevision

\* C38: thought numbers are unique per line, not per session: a non-revision
\* thought submitted with a branchId and a valid branchFromThought is accepted
\* even when its thoughtNumber is the number of a non-revision thought of the
\* main line.
NumbersUniquePerLine ==
    (/\ BranchedFromStored
     /\ ~NumberInLine(before[last.sessionId], last.params.branchId, last.params.thoughtNumber))
        => last.error = OK

\* the part that holds: such a thought is rejected exactly when the session
\* holds a non-revision thought with its number, in whichever line
NumbersUniquePerSession ==
    BranchedFromStored =>
        (last.error # OK <=>
            \E i \in 1..Len(before[last.sessionId].thoughts) :
                /\ before[last.sessionId].thoughts[i].thoughtNumber = last.params.thoughtNumber
                /\ ~before[last.sessionId].thoughts[i].isRevision)

----------------------------------------------------------------------------
(* Properties of the persisted thoughtCount and of the bounds after a load *)

\* the number of rows of table thoughts under the sequence id
RowCount(sequenceId) ==
    Cardinality({r \in 1..Len(thoughtRows) : thoughtRows[r].sequenceId = sequenceId})

\* C39: after every accepted thought submission under an active sequence the
\* persisted thoughtCount of that sequence is the number of durable thought
\* rows stored under its id, across saves, loads and submissions, also after
\* thoughts have been evicted from memory.
ThoughtCountIsRowCount ==
    (impl = "server" /\ AcceptedThought /\ currentSequenceId # 0) =>
        sequences[currentSequenceId].thoughtCount = RowCount(currentSequenceId)

\* the part of C39 that holds: the persisted thoughtCount is the length the
\* main line had with the new thought pushed, before cleanup
ThoughtCountIsHistoryLength ==
    (impl = "server" /\ AcceptedThought /\ currentSequenceId # 0) =>
        sequences[currentSequenceId].thoughtCount = Len(before.thoughtHistory) + 1

\* the three memory bounds of the server
MemoryBounds ==
    /\ Len(thoughtHistory) <= maxThoughtHistory
    /\ Len(branches) <= maxBranches
    /\ \A i \in 1..Len(branches) :
          Len(branches[i].thoughts) <= maxThoughtsPerBranch

\* C40: the memory bounds hold in every reachable state of the server, the
\* state a loadSequence leaves included: the main line is no longer than
\* maxThoughtHistory, there are at most maxBranches branches and no branch
\* list is longer than maxThoughtsPerBranch.
\* (checked in the states in which no submission is suspended between its push
\* and its cleanup)
MemoryBoundsAlways ==
    (impl = "server" /\ NoneAwaitsCleanup) => MemoryBounds

\* the part of C40 that holds: the bounds are restored by the cleanup of the
\* next accepted submission, whatever a loadSequence left before it
MemoryBoundsAfterSubmission ==
    (impl = "server" /\ ReturnedThought) => MemoryBounds

\* an accepted thought has returned while another call was suspended
OverlappedReturn == last.op = "invoked" /\ ReturnedThought /\ inflight # <<>>

====
